---- MODULE Spec2Model ----
(***************************************************************************)
(* Model of the pantry inventory store (the usePantryStore hook backed by  *)
(* IndexedDB): storage areas, pantry items, merge-on-add, open/split,      *)
(* cascade delete and order renumbering.                                    *)
(*                                                                         *)
(* A handler call is one step: the handler queues its updater functions    *)
(* (setState(prev => ...)), React applies all of them in one render, and   *)
(* readers only ever see rendered states.  The write-through saves that    *)
(* the render triggers are part of the step.                               *)
(*                                                                         *)
(* Strings that the code trims or lower-cases are sequences of characters; *)
(* optional fields (openedAt?, expiryDate?) are <<>> when absent and <<v>> *)
(* when present.  Time is counted in half days, calendar dates in days;    *)
(* half a day passes between two handler calls.                            *)
(***************************************************************************)
EXTENDS Integers, Sequences, FiniteSets, TLC

VARIABLES
  storageAreas,  \* useState<StorageArea[]>: the rendered area list
  items,         \* useState<PantryItem[]>: the rendered item list
  isLoading,     \* useState(true)
  hasLoaded,     \* hasLoadedRef.current
  dbAreas,       \* db.storageAreas, as toArray() returns it (key order)
  dbItems,       \* db.items, as toArray() returns it (key order)
  nextId,        \* number of generateId() calls so far, plus one
  now,           \* Date.now()
  tz,            \* offset of the local time zone from UTC
  nCalls,        \* handler calls made so far
  last,          \* the last handler call and the state it was applied to
  prev,          \* the handler call before it and the state it was applied to
  idbAvailable,  \* isIndexedDBAvailable()
  loaded,        \* how loadPersistedState ended and what toArray() gave it
  pendingAreas,  \* area lists of the persistAreas transactions not yet done
  pendingItems,  \* item lists of the persistItems transactions not yet done
  areasSaved,    \* how the last write of db.storageAreas ended
  itemsSaved,    \* how the last write of db.items ended
  got,           \* the last call of a getter and what it returned
  apiStorageAreas, \* API-backed store: useState<StorageArea[]>
  apiItems,      \* API-backed store: useState<PantryItem[]>
  apiIsLoading,  \* API-backed store: useState(true)
  apiError,      \* API-backed store: useState<string | null>
  apiPending,    \* the remote calls of the handlers that have not settled
  srvAreas,      \* backend: the rows of table storage_areas
  srvItems,      \* backend: the rows of table items
  openingItem,   \* App: useState<PantryItem | null>, the OpenItemModal's item
  uiEvent        \* the last event of the UI and the store calls it made

\* the database as a collaborator that can be missing, fail and take time
idbVars ==
  <<idbAvailable, loaded, pendingAreas, pendingItems, areasSaved, itemsSaved>>

\* what the store's own load, handlers and saves never write
apiVars == <<apiStorageAreas, apiItems, apiIsLoading, apiError, apiPending,
             srvAreas, srvItems>>

\* the App and its components
uiVars == <<openingItem, uiEvent>>

sideVars == <<got, apiVars, uiVars>>

vars == <<storageAreas, items, isLoading, hasLoaded, dbAreas, dbItems,
          nextId, now, tz, nCalls, last, prev, idbVars, sideVars>>

(***************************** bounds ***************************************)
MaxCalls == 2      \* handler calls in one behaviour, after the load

(************************ strings and optionals *****************************)
None == <<>>
Some(v) == <<v>>

\* String.prototype.toLowerCase, one character
ToLowerCaseChar(c) == IF c = "M" THEN "m" ELSE c

ToLowerCase(s) == [i \in 1..Len(s) |-> ToLowerCaseChar(s[i])]

RECURSIVE TrimStart(_)
TrimStart(s) == IF s # <<>> /\ Head(s) = " " THEN TrimStart(Tail(s)) ELSE s

RECURSIVE TrimEnd(_)
TrimEnd(s) ==
  IF s # <<>> /\ s[Len(s)] = " " THEN TrimEnd(SubSeq(s, 1, Len(s) - 1)) ELSE s

\* String.prototype.trim
Trim(s) == TrimEnd(TrimStart(s))

(************************* sequence helpers *********************************)
\* Array.prototype.findIndex, 1-based; 0 when nothing matches (-1 in the
\* code).  hits[i] is the value of the predicate on the i-th element.
FindIndex(hits) ==
  IF \E i \in 1..Len(hits) : hits[i]
  THEN CHOOSE i \in 1..Len(hits) : hits[i] /\ \A j \in 1..(i - 1) : ~hits[j]
  ELSE 0

\* Array.prototype.sort((a, b) => a.order - b.order): a stable sort (the
\* head of the array stays before the later elements of equal order)
RECURSIVE InsertByOrder(_, _)
InsertByOrder(a, s) ==
  IF s = <<>> THEN <<a>>
  ELSE IF a.order <= Head(s).order THEN <<a>> \o s
       ELSE <<Head(s)>> \o InsertByOrder(a, Tail(s))

RECURSIVE SortByOrder(_)
SortByOrder(s) ==
  IF s = <<>> THEN <<>>
  ELSE InsertByOrder(Head(s), SortByOrder(Tail(s)))

(***************************** domain ***************************************)
DEFAULT_STORAGE_AREAS ==
  << [order |-> 0, id |-> "fridge", name |-> <<"F", "r", "i", "d", "g", "e">>,
      icon |-> "refrigerator", color |-> "cyan"],
     [order |-> 1, id |-> "freezer",
      name |-> <<"F", "r", "e", "e", "z", "e", "r">>,
      icon |-> "snowflake", color |-> "blue"],
     [order |-> 2, id |-> "pantry", name |-> <<"P", "a", "n", "t", "r", "y">>,
      icon |-> "warehouse", color |-> "amber"] >>

\* generateId(): the n-th identifier handed out in this session.  The code
\* builds it from Date.now() and Math.random(); it is taken to be fresh.
IdPool == <<"g1", "g2", "g3", "g4", "g5", "g6", "g7", "g8">>

generateId(n) == IdPool[n]

\* Keys in the order IndexedDB keeps them (the primary key is the id string)
KeyOrder ==
  <<"a1", "a2", "a3", "freezer", "fridge", "g1", "g2", "g3", "g4", "g5",
    "g6", "g7", "g8", "ghost", "pantry">>

KeyRank(id) == CHOOSE i \in 1..Len(KeyOrder) : KeyOrder[i] = id

RECURSIVE InsertByKey(_, _)
InsertByKey(a, s) ==
  IF s = <<>> THEN <<a>>
  ELSE IF KeyRank(a.id) < KeyRank(Head(s).id) THEN <<a>> \o s
       ELSE <<Head(s)>> \o InsertByKey(a, Tail(s))

RECURSIVE SortByKey(_)
SortByKey(s) ==
  IF s = <<>> THEN <<>> ELSE InsertByKey(Head(s), SortByKey(Tail(s)))

HasDuplicateKey(s) == \E i, j \in 1..Len(s) : i < j /\ s[i].id = s[j].id

(****************************** time ****************************************)
\* One day (1000 * 60 * 60 * 24 ms in the code), in the model's time unit,
\* which is half a day.
DAY == 2

\* today = new Date(); today.setHours(0, 0, 0, 0); today.getTime()
\* z is the local zone's offset from UTC (east positive), t the current time
LocalMidnight(t, z) == ((t + z) \div DAY) * DAY - z

\* new Date('YYYY-MM-DD').getTime(): midnight UTC of calendar day d
DateToTime(d) == d * DAY

\* new Date(time).toISOString().split('T')[0]: the UTC calendar day
TimeToDate(time) == time \div DAY

\* Math.ceil(a / b) for b > 0
CeilDiv(a, b) == -((-a) \div b)

Max(a, b) == IF a >= b THEN a ELSE b

\* the expiry date of the opened portion (openItem)
NewExpiryDate(expiryDate, t, z) ==
  IF expiryDate = None THEN expiryDate
  ELSE LET today == LocalMidnight(t, z)
           expiry == DateToTime(expiryDate[1])
           daysLeft == CeilDiv(expiry - today, DAY)
       IN  IF daysLeft > 1
           THEN LET newDaysLeft == Max(1, daysLeft \div 2)
                    newExpiryTime == today + newDaysLeft * DAY
                IN  Some(TimeToDate(newExpiryTime))
           ELSE expiryDate

(**************************** updaters **************************************)
\* mutant: the new area's order is counted from one
AddStorageAreaOrderFromOne(prevAreas, trimmedName, icon, color, id) ==
  Append(prevAreas, [order |-> Len(prevAreas) + 1, id |-> id,
                     name |-> trimmedName, icon |-> icon, color |-> color])

\* addStorageArea: setStorageAreas((prev) => [...prev, newArea])
AddStorageAreaUpdater(prevAreas, trimmedName, icon, color, id) ==
  Append(prevAreas, [order |-> Len(prevAreas), id |-> id,
                     name |-> trimmedName, icon |-> icon, color |-> color])

\* { ...area, ...updates }: a field of updates that is present wins
Spread(area, updates) ==
  [order |-> IF updates.order # None THEN updates.order[1] ELSE area.order,
   id |-> area.id,
   name |-> IF updates.name # None THEN updates.name[1] ELSE area.name,
   icon |-> IF updates.icon # None THEN updates.icon[1] ELSE area.icon,
   color |-> IF updates.color # None THEN updates.color[1] ELSE area.color]

\* updateStorageArea: prev.map(area => area.id === id ? {...} : area)
UpdateStorageAreaUpdater(prevAreas, id, updates) ==
  [i \in 1..Len(prevAreas) |->
     IF prevAreas[i].id = id THEN Spread(prevAreas[i], updates)
     ELSE prevAreas[i]]

\* .map((area, idx) => ({ ...area, order: idx }))
Renumber(areas) == [i \in 1..Len(areas) |-> [areas[i] EXCEPT !.order = i - 1]]

\* mutant: the remaining areas keep their old order fields
DeleteAreaWithoutRenumber(prevAreas, id) ==
  LET keep(area) == area.id # id
  IN  SelectSeq(prevAreas, keep)

\* deleteStorageArea, first setState: filter, then fill the gaps in order
DeleteStorageAreaUpdater(prevAreas, id) ==
  LET keep(area) == area.id # id
  IN  Renumber(SelectSeq(prevAreas, keep))

\* mutant: the cascade keeps the items of the area
DeleteAreaItemsKeepsAll(prevItems, id) == prevItems

\* deleteStorageArea, second setState: the cascade
DeleteAreaItemsUpdater(prevItems, id) ==
  LET keep(item) == item.storageAreaId # id
  IN  SelectSeq(prevItems, keep)

\* new Map(prev.map(area => [area.id, area])).get(id): the last entry wins
AreaMapGet(prevAreas, id) ==
  IF \E i \in 1..Len(prevAreas) : prevAreas[i].id = id
  THEN Some(prevAreas[CHOOSE i \in 1..Len(prevAreas) :
                        /\ prevAreas[i].id = id
                        /\ \A j \in (i + 1)..Len(prevAreas) :
                             prevAreas[j].id # id])
  ELSE None

\* ids.map(id => areaMap.get(id)).filter(area => area !== undefined)
RECURSIVE LookupAll(_, _)
LookupAll(prevAreas, ids) ==
  IF ids = <<>> THEN <<>>
  ELSE AreaMapGet(prevAreas, Head(ids)) \o LookupAll(prevAreas, Tail(ids))

\* mutant: the reordered areas keep their old order fields
ReorderWithoutRenumber(prevAreas, ids) == LookupAll(prevAreas, ids)

\* reorderStorageAreas
ReorderStorageAreasUpdater(prevAreas, ids) ==
  Renumber(LookupAll(prevAreas, ids))

\* mutant: the names are compared with their case
ExistingIndexWithCase(prevItems, trimmedName, storageAreaId, expiryDate) ==
  LET match(item) ==
        /\ item.storageAreaId = storageAreaId
        /\ item.name = trimmedName
        /\ item.isOpened = FALSE
        /\ item.expiryDate = expiryDate
  IN  FindIndex([i \in 1..Len(prevItems) |-> match(prevItems[i])])

\* mutant: opened items and items of another expiry date are merge candidates
ExistingIndexByNameOnly(prevItems, trimmedName, storageAreaId, expiryDate) ==
  LET match(item) ==
        /\ item.storageAreaId = storageAreaId
        /\ ToLowerCase(item.name) = ToLowerCase(trimmedName)
  IN  FindIndex([i \in 1..Len(prevItems) |-> match(prevItems[i])])

\* addItem: the index of the item the added quantity merges into, or 0
ExistingIndex(prevItems, trimmedName, storageAreaId, expiryDate) ==
  LET match(item) ==
        /\ item.storageAreaId = storageAreaId
        /\ ToLowerCase(item.name) = ToLowerCase(trimmedName)
        /\ item.isOpened = FALSE
        /\ item.expiryDate = expiryDate
  IN  FindIndex([i \in 1..Len(prevItems) |-> match(prevItems[i])])

\* addItem: setItems((prev) => ...)
AddItemUpdater(prevItems, trimmedName, quantity, storageAreaId, expiryDate, id, t) ==
  LET existingIndex ==
        ExistingIndex(prevItems, trimmedName, storageAreaId, expiryDate)
  IN  IF existingIndex > 0
      THEN [prevItems EXCEPT ![existingIndex].quantity = @ + quantity]
      ELSE Append(prevItems,
                  [id |-> id, name |-> trimmedName,
                   expiryDate |-> expiryDate,
                   storageAreaId |-> storageAreaId, isOpened |-> FALSE,
                   quantity |-> quantity, createdAt |-> t,
                   openedAt |-> None])

\* removeItem, and updateItemQuantity with quantity < 1
RemoveItemUpdater(prevItems, id) ==
  LET keep(item) == item.id # id
  IN  SelectSeq(prevItems, keep)

\* updateItemQuantity with quantity >= 1
SetQuantityUpdater(prevItems, id, quantity) ==
  [i \in 1..Len(prevItems) |->
     IF prevItems[i].id = id THEN [prevItems[i] EXCEPT !.quantity = quantity]
     ELSE prevItems[i]]

\* mutant: the split leaves the quantity of the original record as it was
OpenItemWithoutDecrement(prevItems, id, quantityToOpen, newId, t, z) ==
  LET hasId(item) == item.id = id
      itemIndex == FindIndex([i \in 1..Len(prevItems) |-> hasId(prevItems[i])])
  IN  IF itemIndex = 0 THEN prevItems
      ELSE
        LET item == prevItems[itemIndex]
            newExpiryDate == NewExpiryDate(item.expiryDate, t, z)
        IN  IF quantityToOpen >= item.quantity
            THEN [i \in 1..Len(prevItems) |->
                    IF prevItems[i].id = id
                    THEN [prevItems[i] EXCEPT !.isOpened = TRUE,
                                              !.openedAt = Some(t),
                                              !.expiryDate = newExpiryDate]
                    ELSE prevItems[i]]
            ELSE Append(
                   prevItems,
                   [id |-> newId, name |-> item.name,
                    expiryDate |-> newExpiryDate,
                    storageAreaId |-> item.storageAreaId, isOpened |-> TRUE,
                    quantity |-> quantityToOpen,
                    createdAt |-> item.createdAt, openedAt |-> Some(t)])

\* mutant: opening the whole quantity splits too (> for >=)
OpenItemSplitsWholeQuantity(prevItems, id, quantityToOpen, newId, t, z) ==
  LET hasId(item) == item.id = id
      itemIndex == FindIndex([i \in 1..Len(prevItems) |-> hasId(prevItems[i])])
  IN  IF itemIndex = 0 THEN prevItems
      ELSE
        LET item == prevItems[itemIndex]
            newExpiryDate == NewExpiryDate(item.expiryDate, t, z)
        IN  IF quantityToOpen > item.quantity
            THEN [i \in 1..Len(prevItems) |->
                    IF prevItems[i].id = id
                    THEN [prevItems[i] EXCEPT !.isOpened = TRUE,
                                              !.openedAt = Some(t),
                                              !.expiryDate = newExpiryDate]
                    ELSE prevItems[i]]
            ELSE Append(
                   [prevItems EXCEPT
                      ![itemIndex].quantity = item.quantity - quantityToOpen],
                   [id |-> newId, name |-> item.name,
                    expiryDate |-> newExpiryDate,
                    storageAreaId |-> item.storageAreaId, isOpened |-> TRUE,
                    quantity |-> quantityToOpen,
                    createdAt |-> item.createdAt, openedAt |-> Some(t)])

\* mutant: opening an opened record closes it again
OpenItemToggles(prevItems, id, quantityToOpen, newId, t, z) ==
  LET hasId(item) == item.id = id
      itemIndex == FindIndex([i \in 1..Len(prevItems) |-> hasId(prevItems[i])])
  IN  IF itemIndex = 0 THEN prevItems
      ELSE
        LET item == prevItems[itemIndex]
            newExpiryDate == NewExpiryDate(item.expiryDate, t, z)
        IN  IF quantityToOpen >= item.quantity
            THEN [i \in 1..Len(prevItems) |->
                    IF prevItems[i].id = id
                    THEN [prevItems[i] EXCEPT !.isOpened = ~@,
                                              !.openedAt = Some(t),
                                              !.expiryDate = newExpiryDate]
                    ELSE prevItems[i]]
            ELSE Append(
                   [prevItems EXCEPT
                      ![itemIndex].quantity = item.quantity - quantityToOpen],
                   [id |-> newId, name |-> item.name,
                    expiryDate |-> newExpiryDate,
                    storageAreaId |-> item.storageAreaId, isOpened |-> TRUE,
                    quantity |-> quantityToOpen,
                    createdAt |-> item.createdAt, openedAt |-> Some(t)])

\* mutant: the opened record of a split is stamped with the time of the split
OpenItemStampsCreatedAt(prevItems, id, quantityToOpen, newId, t, z) ==
  LET hasId(item) == item.id = id
      itemIndex == FindIndex([i \in 1..Len(prevItems) |-> hasId(prevItems[i])])
  IN  IF itemIndex = 0 THEN prevItems
      ELSE
        LET item == prevItems[itemIndex]
            newExpiryDate == NewExpiryDate(item.expiryDate, t, z)
        IN  IF quantityToOpen >= item.quantity
            THEN [i \in 1..Len(prevItems) |->
                    IF prevItems[i].id = id
                    THEN [prevItems[i] EXCEPT !.isOpened = TRUE,
                                              !.openedAt = Some(t),
                                              !.expiryDate = newExpiryDate]
                    ELSE prevItems[i]]
            ELSE Append(
                   [prevItems EXCEPT
                      ![itemIndex].quantity = item.quantity - quantityToOpen],
                   [id |-> newId, name |-> item.name,
                    expiryDate |-> newExpiryDate,
                    storageAreaId |-> item.storageAreaId, isOpened |-> TRUE,
                    quantity |-> quantityToOpen,
                    createdAt |-> t, openedAt |-> Some(t)])

\* mutant: a full open does not record openedAt
OpenItemWithoutOpenedAt(prevItems, id, quantityToOpen, newId, t, z) ==
  LET hasId(item) == item.id = id
      itemIndex == FindIndex([i \in 1..Len(prevItems) |-> hasId(prevItems[i])])
  IN  IF itemIndex = 0 THEN prevItems
      ELSE
        LET item == prevItems[itemIndex]
            newExpiryDate == NewExpiryDate(item.expiryDate, t, z)
        IN  IF quantityToOpen >= item.quantity
            THEN [i \in 1..Len(prevItems) |->
                    IF prevItems[i].id = id
                    THEN [prevItems[i] EXCEPT !.isOpened = TRUE,
                                              !.expiryDate = newExpiryDate]
                    ELSE prevItems[i]]
            ELSE Append(
                   [prevItems EXCEPT
                      ![itemIndex].quantity = item.quantity - quantityToOpen],
                   [id |-> newId, name |-> item.name,
                    expiryDate |-> newExpiryDate,
                    storageAreaId |-> item.storageAreaId, isOpened |-> TRUE,
                    quantity |-> quantityToOpen,
                    createdAt |-> item.createdAt, openedAt |-> Some(t)])

\* openItem: setItems((prev) => ...)
OpenItemUpdater(prevItems, id, quantityToOpen, newId, t, z) ==
  LET hasId(item) == item.id = id
      itemIndex == FindIndex([i \in 1..Len(prevItems) |-> hasId(prevItems[i])])
  IN  IF itemIndex = 0 THEN prevItems
      ELSE
        LET item == prevItems[itemIndex]
            newExpiryDate == NewExpiryDate(item.expiryDate, t, z)
        IN  IF quantityToOpen >= item.quantity
            THEN [i \in 1..Len(prevItems) |->
                    IF prevItems[i].id = id
                    THEN [prevItems[i] EXCEPT !.isOpened = TRUE,
                                              !.openedAt = Some(t),
                                              !.expiryDate = newExpiryDate]
                    ELSE prevItems[i]]
            ELSE Append(
                   [prevItems EXCEPT
                      ![itemIndex].quantity = item.quantity - quantityToOpen],
                   [id |-> newId, name |-> item.name,
                    expiryDate |-> newExpiryDate,
                    storageAreaId |-> item.storageAreaId, isOpened |-> TRUE,
                    quantity |-> quantityToOpen,
                    createdAt |-> item.createdAt, openedAt |-> Some(t)])

\* does this openItem call generateId()?
OpenItemSplits(prevItems, id, quantityToOpen) ==
  \E i \in 1..Len(prevItems) :
    /\ prevItems[i].id = id
    /\ \A j \in 1..(i - 1) : prevItems[j].id # id
    /\ quantityToOpen < prevItems[i].quantity

(**************************** handlers **************************************)
\* A handler call queues updater functions with setState(prev => ...); the
\* value of a handler is the sequence of updaters it queues, each named by
\* the state it sets and carrying the arguments its closure captured.

addStorageArea(name, icon, color) ==
  LET trimmedName == Trim(name)
  IN  IF trimmedName = <<>> THEN <<>>
      ELSE << [icon |-> icon, color |-> color, trimmedName |-> trimmedName,
               set |-> "storageAreas", fn |-> "addStorageArea"] >>

updateStorageArea(id, updates) ==
  << [id |-> id, updates |-> updates, set |-> "storageAreas",
      fn |-> "updateStorageArea"] >>

deleteStorageArea(id) ==
  << [id |-> id, set |-> "storageAreas", fn |-> "deleteStorageArea"],
     [id |-> id, set |-> "items", fn |-> "deleteStorageArea"] >>

reorderStorageAreas(ids) ==
  << [ids |-> ids, set |-> "storageAreas", fn |-> "reorderStorageAreas"] >>

\* mutant: a quantity of 0 passes the validation (< 0 for < 1)
addItemAcceptsZero(name, quantity, storageAreaId, expiryDate) ==
  LET trimmedName == Trim(name)
  IN  IF trimmedName = <<>> \/ quantity < 0 THEN <<>>
      ELSE << [expiryDate |-> expiryDate, trimmedName |-> trimmedName,
               storageAreaId |-> storageAreaId, quantity |-> quantity,
               set |-> "items", fn |-> "addItem"] >>

addItem(name, quantity, storageAreaId, expiryDate) ==
  LET trimmedName == Trim(name)
  IN  IF trimmedName = <<>> \/ quantity < 1 THEN <<>>
      ELSE << [expiryDate |-> expiryDate, trimmedName |-> trimmedName,
               storageAreaId |-> storageAreaId, quantity |-> quantity,
               set |-> "items", fn |-> "addItem"] >>

\* mutant: a quantity of 0 is stored (< 0 for < 1)
updateItemQuantityKeepsZero(id, quantity) ==
  IF quantity < 0
  THEN << [id |-> id, set |-> "items", fn |-> "removeItem"] >>
  ELSE << [id |-> id, quantity |-> quantity, set |-> "items",
           fn |-> "setQuantity"] >>

updateItemQuantity(id, quantity) ==
  IF quantity < 1
  THEN << [id |-> id, set |-> "items", fn |-> "removeItem"] >>
  ELSE << [id |-> id, quantity |-> quantity, set |-> "items",
           fn |-> "setQuantity"] >>

removeItem(id) == << [id |-> id, set |-> "items", fn |-> "removeItem"] >>

openItem(id, quantityToOpen) ==
  << [id |-> id, quantityToOpen |-> quantityToOpen, set |-> "items",
      fn |-> "openItem"] >>

\* the store's interface: the handler that a call record names
Handle(c) ==
  CASE c.op = "addStorageArea" -> addStorageArea(c.name, c.icon, c.color)
    [] c.op = "updateStorageArea" -> updateStorageArea(c.id, c.updates)
    [] c.op = "deleteStorageArea" -> deleteStorageArea(c.id)
    [] c.op = "reorderStorageAreas" -> reorderStorageAreas(c.ids)
    [] c.op = "addItem" ->
         addItem(c.name, c.quantity, c.storageAreaId, c.expiryDate)
    [] c.op = "updateItemQuantity" -> updateItemQuantity(c.id, c.quantity)
    [] c.op = "removeItem" -> removeItem(c.id)
    [] c.op = "openItem" -> openItem(c.id, c.quantityToOpen)

\* What a handler call hands back to its caller: every handler of the store
\* is declared "=> void", returns no value on any path and throws nothing.
ReturnValue(c) == "undefined"

(****************************** getters *************************************)
\* the weights of the default collation for the characters of the names:
\* a space sorts before the letters, "i" before "m"; a lower-case letter
\* before its upper-case form when nothing else differs
PrimaryWeight(ch) == IF ch = " " THEN 0 ELSE IF ch = "i" THEN 1 ELSE 2

TertiaryWeight(ch) == IF ch = "M" THEN 1 ELSE 0

\* the comparison of two sequences of weights, first difference first, a
\* proper prefix before the longer sequence
RECURSIVE CompareWeights(_, _)
CompareWeights(a, b) ==
  IF a = <<>> THEN (IF b = <<>> THEN 0 ELSE -1)
  ELSE IF b = <<>> THEN 1
  ELSE IF Head(a) < Head(b) THEN -1
  ELSE IF Head(a) > Head(b) THEN 1
  ELSE CompareWeights(Tail(a), Tail(b))

\* String.prototype.localeCompare: the letters decide, then their case
localeCompare(a, b) ==
  LET primary == CompareWeights([i \in 1..Len(a) |-> PrimaryWeight(a[i])],
                                [i \in 1..Len(b) |-> PrimaryWeight(b[i])])
  IN  IF primary # 0 THEN primary
      ELSE CompareWeights([i \in 1..Len(a) |-> TertiaryWeight(a[i])],
                          [i \in 1..Len(b) |-> TertiaryWeight(b[i])])

RECURSIVE InsertByName(_, _)
InsertByName(a, s) ==
  IF s = <<>> THEN <<a>>
  ELSE IF localeCompare(a.name, Head(s).name) <= 0 THEN <<a>> \o s
       ELSE <<Head(s)>> \o InsertByName(a, Tail(s))

\* Array.prototype.sort((a, b) => a.name.localeCompare(b.name)), stable
RECURSIVE SortByName(_)
SortByName(s) ==
  IF s = <<>> THEN <<>> ELSE InsertByName(Head(s), SortByName(Tail(s)))

\* items.filter((item) => item.storageAreaId === storageAreaId)
FilterByArea(list, storageAreaId) ==
  SelectSeq(list, LAMBDA item : item.storageAreaId = storageAreaId)

\* a mutant: the filtered items as they come, not sorted
getItemsForAreaUnsorted(list, storageAreaId) ==
  FilterByArea(list, storageAreaId)

getItemsForArea(list, storageAreaId) ==
  SortByName(FilterByArea(list, storageAreaId))

\* reduce((sum, item) => sum + item.quantity, 0)
RECURSIVE SumQuantity(_)
SumQuantity(list) ==
  IF list = <<>> THEN 0 ELSE Head(list).quantity + SumQuantity(Tail(list))

getItemCountForArea(list, storageAreaId) ==
  SumQuantity(FilterByArea(list, storageAreaId))

(****************************** backend *************************************)
\* DatabaseService.initDefaultStorageAreas: the rows of a new database
defaultAreas ==
  << [id |-> "fridge", name |-> <<"F", "r", "i", "d", "g", "e">>,
      icon |-> "refrigerator", color |-> "blue"],
     [id |-> "freezer", name |-> <<"F", "r", "e", "e", "z", "e", "r">>,
      icon |-> "snowflake", color |-> "cyan"],
     [id |-> "pantry", name |-> <<"P", "a", "n", "t", "r", "y">>,
      icon |-> "warehouse", color |-> "orange"] >>

\* the characters of the names, in the order of their bytes
Bytes ==
  <<" ", "F", "M", "P", "a", "d", "e", "g", "i", "m", "n", "r", "t", "y", "z">>

ByteOf(ch) == CHOOSE i \in 1..Len(Bytes) : Bytes[i] = ch

RECURSIVE InsertByBytes(_, _)
InsertByBytes(a, s) ==
  IF s = <<>> THEN <<a>>
  ELSE IF CompareWeights([i \in 1..Len(a.name) |-> ByteOf(a.name[i])],
                         [i \in 1..Len(Head(s).name) |->
                            ByteOf(Head(s).name[i])]) <= 0
       THEN <<a>> \o s
       ELSE <<Head(s)>> \o InsertByBytes(a, Tail(s))

\* SELECT ... ORDER BY name
RECURSIVE OrderByName(_)
OrderByName(rows) ==
  IF rows = <<>> THEN <<>>
  ELSE InsertByBytes(Head(rows), OrderByName(Tail(rows)))

\* what a route leaves in the tables and sends back
Respond(itemRows, areaRows, status, body) ==
  [items |-> itemRows, areas |-> areaRows, status |-> status, body |-> body]

HasId(rows, id) == \E i \in 1..Len(rows) : rows[i].id = id

WithoutId(rows, id) == SelectSeq(rows, LAMBDA r : r.id # id)

\* POST /api/storage-areas
PostStorageArea(T, name, icon, color, id) ==
  IF name = <<>>
  THEN Respond(T.items, T.areas, 400, "Name, icon, and color are required")
  ELSE LET newArea == [id |-> id, name |-> Trim(name), icon |-> icon,
                       color |-> color]
       IN  Respond(T.items, Append(T.areas, newArea), 201, newArea)

\* PUT /api/storage-areas/:id
PutStorageArea(T, id, updates) ==
  IF ~HasId(T.areas, id)
  THEN Respond(T.items, T.areas, 404, "Storage area not found")
  ELSE LET found == SelectSeq(T.areas, LAMBDA r : r.id = id)[1]
           updated ==
             [id |-> found.id,
              name |-> IF updates.name # None
                       THEN Trim(updates.name[1]) ELSE found.name,
              icon |-> IF updates.icon # None
                       THEN updates.icon[1] ELSE found.icon,
              color |-> IF updates.color # None
                        THEN updates.color[1] ELSE found.color]
       IN  Respond(T.items,
                   [i \in 1..Len(T.areas) |->
                      IF T.areas[i].id = id THEN updated ELSE T.areas[i]],
                   200, updated)

\* DELETE /api/storage-areas/:id
DeleteStorageAreaRoute(T, id) ==
  LET itemRows == SelectSeq(T.items, LAMBDA r : r.storageAreaId # id)
  IN  IF HasId(T.areas, id)
      THEN Respond(itemRows, WithoutId(T.areas, id), 204, None)
      ELSE Respond(itemRows, T.areas, 404, "Storage area not found")

\* POST /api/items
PostItem(T, name, quantity, storageAreaId, id, time) ==
  IF name = <<>> \/ quantity = 0
  THEN Respond(T.items, T.areas, 400,
               "Name, quantity, and storageAreaId are required")
  ELSE IF ~HasId(T.areas, storageAreaId)
  THEN Respond(T.items, T.areas, 400, "Invalid storageAreaId")
  ELSE LET existingItems ==
             SelectSeq(OrderByName(FilterByArea(T.items, storageAreaId)),
                       LAMBDA item :
                         ToLowerCase(item.name) = ToLowerCase(Trim(name)))
       IN  IF existingItems # <<>>
           THEN LET updated ==
                      [existingItems[1] EXCEPT
                         !.quantity = existingItems[1].quantity + quantity]
                IN  Respond([i \in 1..Len(T.items) |->
                               IF T.items[i].id = updated.id
                               THEN updated ELSE T.items[i]],
                            T.areas, 200, updated)
           ELSE LET newItem ==
                      [id |-> id, name |-> Trim(name),
                       storageAreaId |-> storageAreaId,
                       quantity |-> quantity, createdAt |-> time]
                IN  Respond(Append(T.items, newItem), T.areas, 201, newItem)

\* PUT /api/items/:id with the body { quantity }
PutItem(T, id, quantity) ==
  IF ~HasId(T.items, id)
  THEN Respond(T.items, T.areas, 404, "Item not found")
  ELSE LET found == SelectSeq(T.items, LAMBDA r : r.id = id)[1]
           updated == [found EXCEPT !.quantity = quantity]
       IN  Respond([i \in 1..Len(T.items) |->
                      IF T.items[i].id = id THEN updated ELSE T.items[i]],
                   T.areas, 200, updated)

\* DELETE /api/items/:id
DeleteItemRoute(T, id) ==
  IF HasId(T.items, id)
  THEN Respond(WithoutId(T.items, id), T.areas, 204, None)
  ELSE Respond(T.items, T.areas, 404, "Item not found")

(****************************** render **************************************)
\* One queued updater applied to S = [storageAreas, items, nextId]: the
\* updater runs on the state the updaters queued before it produced.  t is
\* Date.now() and z the zone offset; generateId() is called by the updater.
ApplyUpdater(S, u, t, z) ==
  CASE u.set = "storageAreas" /\ u.fn = "addStorageArea" ->
         [S EXCEPT
            !.storageAreas = AddStorageAreaUpdater(
                @, u.trimmedName, u.icon, u.color, generateId(S.nextId)),
            !.nextId = @ + 1]
    [] u.set = "storageAreas" /\ u.fn = "updateStorageArea" ->
         [S EXCEPT
            !.storageAreas = UpdateStorageAreaUpdater(@, u.id, u.updates)]
    [] u.set = "storageAreas" /\ u.fn = "deleteStorageArea" ->
         [S EXCEPT !.storageAreas = DeleteStorageAreaUpdater(@, u.id)]
    [] u.set = "storageAreas" /\ u.fn = "reorderStorageAreas" ->
         [S EXCEPT !.storageAreas = ReorderStorageAreasUpdater(@, u.ids)]
    [] u.set = "items" /\ u.fn = "deleteStorageArea" ->
         [S EXCEPT !.items = DeleteAreaItemsUpdater(@, u.id)]
    [] u.set = "items" /\ u.fn = "addItem" ->
         [S EXCEPT
            !.items = AddItemUpdater(@, u.trimmedName, u.quantity,
                                     u.storageAreaId, u.expiryDate,
                                     generateId(S.nextId), t),
            !.nextId =
               IF ExistingIndex(S.items, u.trimmedName, u.storageAreaId,
                                u.expiryDate) > 0
               THEN @ ELSE @ + 1]
    [] u.set = "items" /\ u.fn = "removeItem" ->
         [S EXCEPT !.items = RemoveItemUpdater(@, u.id)]
    [] u.set = "items" /\ u.fn = "setQuantity" ->
         [S EXCEPT !.items = SetQuantityUpdater(@, u.id, u.quantity)]
    [] u.set = "items" /\ u.fn = "openItem" ->
         [S EXCEPT
            !.items = OpenItemUpdater(@, u.id, u.quantityToOpen,
                                      generateId(S.nextId), t, z),
            !.nextId = IF OpenItemSplits(S.items, u.id, u.quantityToOpen)
                       THEN @ + 1 ELSE @]

\* mutant: a render after the first setState, as without batching: readers
\* see the state in which only the first queued updater has run
RenderAfterFirstUpdater(S, queue, t, z) ==
  IF queue = <<>> THEN S ELSE ApplyUpdater(S, Head(queue), t, z)

\* React applies every updater queued in the batch, in queue order, in one
\* render; the result is the next state that readers see.
RECURSIVE Render(_, _, _, _)
Render(S, queue, t, z) ==
  IF queue = <<>> THEN S
  ELSE Render(ApplyUpdater(S, Head(queue), t, z), Tail(queue), t, z)

(*************************** persistence ************************************)
\* db.transaction('rw', table, clear + bulkAdd(value)): bulkAdd rejects a
\* repeated primary key, which aborts the transaction and keeps the table
\* a mutant: bulkPut() without clear(), the rows of other keys stay
PersistTableWithoutClear(table, value) ==
  IF HasDuplicateKey(value) THEN table
  ELSE SortByKey(value \o SelectSeq(table, LAMBDA r :
                   \A i \in 1..Len(value) : value[i].id # r.id))

PersistTable(table, value) ==
  IF HasDuplicateKey(value) THEN table ELSE SortByKey(value)

\* the effect on [storageAreas] runs when the render got a new array
SetsStorageAreas(queue) ==
  \E k \in 1..Len(queue) : queue[k].set = "storageAreas"

\* the effect on [items] runs when the render got a new array: the openItem
\* updater returns prev itself when it does not find the id
SetsItems(S, queue) ==
  \E k \in 1..Len(queue) :
    /\ queue[k].set = "items"
    /\ queue[k].fn = "openItem" =>
         \E i \in 1..Len(S.items) : S.items[i].id = queue[k].id

(****************************** inputs **************************************)
\* no event of the UI yet
NoEvent ==
  [handler |-> "none", mergedIds |-> <<>>, total |-> 0, newQuantity |-> 0,
   calls |-> <<>>]

NoCall ==
  [storageAreas |-> <<>>, items |-> <<>>, call |-> [op |-> "none"],
   returned |-> "none"]

TzOffsets == {0, 1}

\* no getter called yet
NoGet == [storageAreaId |-> "none", op |-> "none", answer |-> <<>>]

\* loadPersistedState has not ended
NotLoaded == [items |-> <<>>, areas |-> <<>>, outcome |-> "pending"]

NoUpdates == [order |-> None, name |-> None, icon |-> None, color |-> None]

\* What an earlier session, or the upgrade of a version 1 database, left in
\* IndexedDB: nothing; the default areas, each given order 0 by the upgrade;
\* the default areas and two items.
PersistedStates ==
  { [items |-> <<>>, areas |-> <<>>],
    [items |-> <<>>,
     areas |-> SortByKey([i \in 1..3 |->
                  [DEFAULT_STORAGE_AREAS[i] EXCEPT !.order = 0]])],
    [items |->
       << [id |-> "a1", name |-> <<"M", "i">>, expiryDate |-> None,
           storageAreaId |-> "fridge", isOpened |-> FALSE, quantity |-> 2,
           createdAt |-> -4, openedAt |-> None],
          [id |-> "a2", name |-> <<"M", "i">>, expiryDate |-> Some(5),
           storageAreaId |-> "pantry", isOpened |-> FALSE, quantity |-> 2,
           createdAt |-> -3, openedAt |-> None] >>,
     areas |-> SortByKey(DEFAULT_STORAGE_AREAS)] }

AreaIds == {storageAreas[i].id : i \in 1..Len(storageAreas)} \cup {"ghost"}

ItemIds == {items[i].id : i \in 1..Len(items)} \cup {"ghost"}

AddItemInputs ==
  ({<<"M", "i">>, <<"m", "i">>} \X {1, 3} \X {"fridge"} \X {None, Some(5)})
  \cup ({<<"M", "i">>} \X {1} \X {"pantry", "ghost"} \X {None})
  \cup { << <<" ", "m", "i", " ">>, 1, "fridge", None >>,
         << <<" ">>, 1, "fridge", None >>,
         << <<"M", "i">>, 0, "fridge", None >> }

UpdateInputs ==
  { [NoUpdates EXCEPT !.name = Some(<<" ", "M", "i">>)],
    [NoUpdates EXCEPT !.icon = Some("box"), !.color = Some("rose")],
    [NoUpdates EXCEPT !.order = Some(5)] }

\* id lists for reorderStorageAreas: the current list reversed, rotated,
\* without its first id, with its first id repeated, with an unknown id
ReorderInputs ==
  LET ids == [i \in 1..Len(storageAreas) |-> storageAreas[i].id]
      n == Len(ids)
  IN  { [i \in 1..n |-> ids[n + 1 - i]], <<"ghost">> \o ids }
      \cup (IF n = 0 THEN {}
            ELSE { Tail(ids) \o <<Head(ids)>>, Tail(ids),
                   ids \o <<Head(ids)>> })

(****************************** actions *************************************)
\* the hook's first render, nothing loaded and no transaction started
InitStore ==
  /\ storageAreas = <<>>
  /\ items = <<>>
  /\ isLoading = TRUE
  /\ hasLoaded = FALSE
  /\ nextId = 1
  /\ now = 0
  /\ nCalls = 0
  /\ last = NoCall
  /\ prev = NoCall
  /\ loaded = NotLoaded
  /\ pendingAreas = <<>>
  /\ pendingItems = <<>>
  /\ areasSaved = "none"
  /\ itemsSaved = "none"
  /\ got = NoGet
  /\ apiStorageAreas = <<>>
  /\ apiItems = <<>>
  /\ apiIsLoading = TRUE
  /\ apiError = None
  /\ apiPending = <<>>
  /\ openingItem = None
  /\ uiEvent = NoEvent

Init ==
  /\ InitStore
  /\ \E p \in PersistedStates : dbAreas = p.areas /\ dbItems = p.items
  /\ tz \in TzOffsets
  /\ idbAvailable = TRUE
  /\ srvAreas = defaultAreas
  /\ srvItems = <<>>

\* loadPersistedState, IndexedDB available and readable
Load ==
  /\ isLoading
  /\ storageAreas' =
       IF Len(dbAreas) > 0 THEN SortByOrder(dbAreas) ELSE DEFAULT_STORAGE_AREAS
  /\ dbAreas' =
       IF Len(dbAreas) > 0 THEN dbAreas ELSE SortByKey(DEFAULT_STORAGE_AREAS)
  /\ items' = IF Len(dbItems) > 0 THEN dbItems ELSE items
  /\ isLoading' = FALSE
  /\ hasLoaded' = TRUE
  /\ loaded' = [items |-> dbItems, areas |-> dbAreas, outcome |-> "ok"]
  /\ UNCHANGED <<dbItems, nextId, now, tz, nCalls, last, prev>>
  /\ UNCHANGED <<idbAvailable, pendingAreas, pendingItems, areasSaved,
                 itemsSaved, sideVars>>

\* One handler call and the render that follows it: the handlers are part of
\* the object the hook returns from its first render on, and none of them
\* reads isLoading.
Mutate(c) ==
  /\ nCalls < MaxCalls
  /\ LET S == [storageAreas |-> storageAreas, items |-> items,
               nextId |-> nextId]
         T == Render(S, Handle(c), now, tz)
     IN  /\ storageAreas' = T.storageAreas
         /\ items' = T.items
         /\ nextId' = T.nextId
  /\ now' = now + 1
  /\ nCalls' = nCalls + 1
  /\ prev' = last
  /\ last' = [storageAreas |-> storageAreas, items |-> items, call |-> c,
               returned |-> ReturnValue(c)]
  /\ UNCHANGED <<isLoading, hasLoaded, tz, idbAvailable, loaded, sideVars>>

\* does the persist effect on [storageAreas] start a save after this call?
SavesStorageAreas(c) ==
  idbAvailable /\ hasLoaded /\ SetsStorageAreas(Handle(c))

\* the persist effect on [items] without its hasLoadedRef test
SavesItemsBeforeLoad(c) ==
  idbAvailable
    /\ SetsItems([storageAreas |-> storageAreas, items |-> items,
                  nextId |-> nextId], Handle(c))

\* does the persist effect on [items] start a save after this call?
SavesItems(c) ==
  idbAvailable /\ hasLoaded
    /\ SetsItems([storageAreas |-> storageAreas, items |-> items,
                  nextId |-> nextId], Handle(c))

\* the write-through saves of a call, each transaction committing before the
\* next call
SaveNow(c) ==
  /\ dbAreas' = IF SavesStorageAreas(c)
                THEN PersistTable(dbAreas, storageAreas')
                ELSE dbAreas
  /\ dbItems' = IF SavesItems(c)
                THEN PersistTable(dbItems, items')
                ELSE dbItems
  /\ UNCHANGED <<pendingAreas, pendingItems, areasSaved, itemsSaved>>

\* One handler call, from the controls the App renders once loading is over,
\* with the render and the write-through saves that follow it.
Call(c) ==
  /\ ~isLoading
  /\ Mutate(c)
  /\ SaveNow(c)

\* A handler call made while loadPersistedState is still awaiting the
\* database: the persist effects return early (hasLoadedRef is false).
CallWhileLoading(c) ==
  /\ isLoading
  /\ Mutate(c)
  /\ SaveNow(c)

AddStorageArea ==
  \E name \in {<<" ">>, <<" ", "M", "i", " ">>} :
    Call([name |-> name, icon |-> "box", color |-> "rose",
          op |-> "addStorageArea"])

UpdateStorageArea ==
  \E id \in AreaIds, updates \in UpdateInputs :
    Call([id |-> id, updates |-> updates, op |-> "updateStorageArea"])

DeleteStorageArea ==
  \E id \in AreaIds : Call([id |-> id, op |-> "deleteStorageArea"])

ReorderStorageAreas ==
  \E ids \in ReorderInputs : Call([ids |-> ids, op |-> "reorderStorageAreas"])

AddItem ==
  \E in \in AddItemInputs :
    Call([name |-> in[1], expiryDate |-> in[4], storageAreaId |-> in[3],
          quantity |-> in[2], op |-> "addItem"])

UpdateItemQuantity ==
  \E id \in ItemIds, quantity \in {-1, 0, 2} :
    Call([id |-> id, quantity |-> quantity, op |-> "updateItemQuantity"])

RemoveItem == \E id \in ItemIds : Call([id |-> id, op |-> "removeItem"])

OpenItem ==
  \E id \in ItemIds, quantityToOpen \in {-1, 0, 1, 2} :
    Call([id |-> id, quantityToOpen |-> quantityToOpen, op |-> "openItem"])

Next ==
  \/ Load
  \/ AddStorageArea
  \/ UpdateStorageArea
  \/ DeleteStorageArea
  \/ ReorderStorageAreas
  \/ AddItem
  \/ UpdateItemQuantity
  \/ RemoveItem
  \/ OpenItem

Spec == Init /\ [][Next]_vars

\* the item ledger and the cascade: the calls that set the item list
NextItems ==
  \/ Load
  \/ DeleteStorageArea
  \/ AddItem
  \/ UpdateItemQuantity
  \/ RemoveItem
  \/ OpenItem

SpecItems == Init /\ [][NextItems]_vars

\* the area registry: the calls that set the area list
NextAreas ==
  \/ Load
  \/ AddStorageArea
  \/ UpdateStorageArea
  \/ DeleteStorageArea
  \/ ReorderStorageAreas

SpecAreas == Init /\ [][NextAreas]_vars

AddItemWhileLoading ==
  \E name \in {<<"M", "i">>, <<"i">>}, storageAreaId \in {"fridge", "ghost"} :
    CallWhileLoading([name |-> name, expiryDate |-> None,
                      storageAreaId |-> storageAreaId, quantity |-> 1,
                      op |-> "addItem"])

AddStorageAreaWhileLoading ==
  CallWhileLoading([name |-> <<"M", "i">>, icon |-> "box", color |-> "rose",
                    op |-> "addStorageArea"])

\* calls before and after the end of the initial load
NextEarly ==
  \/ Load
  \/ AddItemWhileLoading
  \/ AddStorageAreaWhileLoading
  \/ AddItem
  \/ RemoveItem

SpecEarly == Init /\ [][NextEarly]_vars

(************************** reading the store *******************************)
\* items of names that sort differently from the order they are added in
AddItemToSort ==
  \E name \in {<<"i">>, <<"m", "i">>, <<"M", "i">>, <<"M">>},
     storageAreaId \in {"fridge", "pantry"} :
    Call([name |-> name, expiryDate |-> None, storageAreaId |-> storageAreaId,
          quantity |-> 1, op |-> "addItem"])

\* a call of a getter of the rendered store: it returns a value and sets no
\* state (filter() copies, sort() sorts the copy)
Get(op, storageAreaId, answer) ==
  /\ ~isLoading
  /\ got' = [storageAreaId |-> storageAreaId, op |-> op, answer |-> answer]
  /\ UNCHANGED <<storageAreas, items, isLoading, hasLoaded, dbAreas, dbItems,
                 nextId, now, tz, nCalls, last, prev, idbVars, apiVars,
                 uiVars>>

GetItemsForArea ==
  \E storageAreaId \in {"fridge", "ghost"} :
    Get("getItemsForArea", storageAreaId,
        getItemsForArea(items, storageAreaId))

GetItemCountForArea ==
  \E storageAreaId \in {"fridge", "ghost"} :
    Get("getItemCountForArea", storageAreaId,
        getItemCountForArea(items, storageAreaId))

NextRead ==
  \/ Load
  \/ AddItemToSort
  \/ GetItemsForArea
  \/ GetItemCountForArea

SpecRead == Init /\ [][NextRead]_vars

(*************************** API-backed store *******************************)
\* a remote call that the backend has not answered
NoResponse == [status |-> 0, body |-> None]

\* fetch() rejects: the request or its answer is lost
FetchFailed == [status |-> -1, body |-> "Failed to fetch"]

\* the handler returns before it calls the API
ReturnsEarly(c) ==
  \/ c.op = "addStorageArea" /\ Trim(c.name) = <<>>
  \/ c.op = "addItem" /\ (Trim(c.name) = <<>> \/ c.quantity < 1)

\* the request that the handler sends through storageAreaApi or itemApi,
\* as the backend routes serve it
Serve(T, c, id, time) ==
  CASE c.op = "addStorageArea" ->
         PostStorageArea(T, Trim(c.name), c.icon, c.color, id)
    [] c.op = "updateStorageArea" -> PutStorageArea(T, c.id, c.updates)
    [] c.op = "deleteStorageArea" -> DeleteStorageAreaRoute(T, c.id)
    [] c.op = "addItem" ->
         PostItem(T, Trim(c.name), c.quantity, c.storageAreaId, id, time)
    [] c.op = "updateItemQuantity" ->
         IF c.quantity < 1 THEN DeleteItemRoute(T, c.id)
         ELSE PutItem(T, c.id, c.quantity)
    [] c.op = "removeItem" -> DeleteItemRoute(T, c.id)

\* apiCall: response.ok
IsOk(status) == status \in 200..299

\* the area list after the remote call of that handler call has resolved
ResolvedAreas(prevAreas, c, body) ==
  CASE c.op = "addStorageArea" -> Append(prevAreas, body)
    [] c.op = "updateStorageArea" ->
         [i \in 1..Len(prevAreas) |->
            IF prevAreas[i].id = c.id THEN body ELSE prevAreas[i]]
    [] c.op = "deleteStorageArea" -> WithoutId(prevAreas, c.id)
    [] OTHER -> prevAreas

\* the item list after the remote call of that handler call has resolved
ResolvedItems(prevItems, c, body) ==
  CASE c.op = "deleteStorageArea" ->
         SelectSeq(prevItems, LAMBDA item : item.storageAreaId # c.id)
    [] c.op = "addItem" ->
         LET existingIndex ==
               FindIndex([i \in 1..Len(prevItems) |->
                  /\ prevItems[i].storageAreaId = c.storageAreaId
                  /\ ToLowerCase(prevItems[i].name)
                       = ToLowerCase(Trim(c.name))])
         IN  IF existingIndex >= 0
             THEN [prevItems EXCEPT ![existingIndex + 1] = body]
             ELSE Append(prevItems, body)
    [] c.op = "updateItemQuantity" /\ c.quantity >= 1 ->
         [i \in 1..Len(prevItems) |->
            IF prevItems[i].id = c.id THEN body ELSE prevItems[i]]
    [] c.op \in {"updateItemQuantity", "removeItem"} ->
         WithoutId(prevItems, c.id)
    [] OTHER -> prevItems

RemoveAt(s, k) == SubSeq(s, 1, k - 1) \o SubSeq(s, k + 1, Len(s))

\* what the API-backed store and the backend never write
idbStoreVars ==
  <<storageAreas, items, isLoading, hasLoaded, dbAreas, dbItems, tz, idbVars,
    got, uiVars>>

InitApi ==
  /\ InitStore
  /\ dbAreas = <<>>
  /\ dbItems = <<>>
  /\ tz = 0
  /\ idbAvailable = TRUE
  /\ srvAreas = defaultAreas
  /\ srvItems \in
       { <<>>,
         << [id |-> "s1", name |-> <<"M", "i">>, storageAreaId |-> "fridge",
             quantity |-> 2, createdAt |-> -4] >> }

\* fetchData: both getAll() resolve
FetchDataResolves ==
  /\ apiIsLoading
  /\ apiStorageAreas' = OrderByName(srvAreas)
  /\ apiItems' = OrderByName(srvItems)
  /\ apiIsLoading' = FALSE
  /\ UNCHANGED <<apiError, apiPending, srvAreas, srvItems, nextId, now,
                 nCalls, last, prev, idbStoreVars>>

\* fetchData: a getAll() rejects
FetchDataRejects ==
  /\ apiIsLoading
  /\ apiError' = Some(FetchFailed.body)
  /\ apiIsLoading' = FALSE
  /\ UNCHANGED <<apiStorageAreas, apiItems, apiPending, srvAreas, srvItems,
                 nextId, now, nCalls, last, prev, idbStoreVars>>

\* a mutant: deleteStorageArea filters both lists before it awaits the API
ApiCallOptimistic(c) ==
  /\ ~apiIsLoading
  /\ nCalls < MaxCalls
  /\ apiPending' = IF ReturnsEarly(c) THEN apiPending
                   ELSE Append(apiPending, [call |-> c, response |-> NoResponse])
  /\ apiStorageAreas' = IF c.op = "deleteStorageArea"
                        THEN ResolvedAreas(apiStorageAreas, c, None)
                        ELSE apiStorageAreas
  /\ apiItems' = IF c.op = "deleteStorageArea"
                 THEN ResolvedItems(apiItems, c, None)
                 ELSE apiItems
  /\ nCalls' = nCalls + 1
  /\ prev' = last
  /\ last' = [storageAreas |-> apiStorageAreas, items |-> apiItems,
               call |-> c, returned |-> "promise"]
  /\ UNCHANGED <<apiIsLoading, apiError, srvAreas, srvItems,
                 nextId, now, idbStoreVars>>

\* A handler call of the API-backed store up to its await: the handler
\* returns at once or sends its request and returns a promise.
ApiCall(c) ==
  /\ ~apiIsLoading
  /\ nCalls < MaxCalls
  /\ apiPending' = IF ReturnsEarly(c) THEN apiPending
                   ELSE Append(apiPending, [call |-> c, response |-> NoResponse])
  /\ nCalls' = nCalls + 1
  /\ prev' = last
  /\ last' = [storageAreas |-> apiStorageAreas, items |-> apiItems,
               call |-> c, returned |-> "promise"]
  /\ UNCHANGED <<apiStorageAreas, apiItems, apiIsLoading, apiError, srvAreas,
                 srvItems, nextId, now, idbStoreVars>>

ApiAddStorageArea ==
  \E name \in {<<" ">>, <<" ", "M", "i">>} :
    ApiCall([name |-> name, icon |-> "box", color |-> "rose",
             op |-> "addStorageArea"])

ApiUpdateStorageArea ==
  ApiCall([id |-> "fridge",
           updates |-> [NoUpdates EXCEPT !.name = Some(<<" ", "M", "i">>)],
           op |-> "updateStorageArea"])

ApiDeleteStorageArea ==
  \E id \in {"fridge", "ghost"} :
    ApiCall([id |-> id, op |-> "deleteStorageArea"])

ApiAddItem ==
  \E storageAreaId \in {"fridge", "ghost"} :
    ApiCall([name |-> <<"m", "i">>, storageAreaId |-> storageAreaId,
             quantity |-> 1, op |-> "addItem"])

ApiUpdateItemQuantity ==
  \E quantity \in {0, 3} :
    ApiCall([id |-> "s1", quantity |-> quantity, op |-> "updateItemQuantity"])

ApiRemoveItem == ApiCall([id |-> "s1", op |-> "removeItem"])

\* the backend serves one of the requests
ServerResponds ==
  \E k \in 1..Len(apiPending) :
    /\ apiPending[k].response = NoResponse
    /\ LET R == Serve([items |-> srvItems, areas |-> srvAreas],
                      apiPending[k].call, generateId(nextId), now)
       IN  /\ srvItems' = R.items
           /\ srvAreas' = R.areas
           /\ apiPending' =
                [apiPending EXCEPT
                   ![k].response = [status |-> R.status, body |-> R.body]]
    /\ nextId' = nextId + 1
    /\ now' = now + 1
    /\ UNCHANGED <<apiStorageAreas, apiItems, apiIsLoading, apiError, nCalls,
                   last, prev, idbStoreVars>>

\* a request, or the answer to it, is lost
NetworkFails ==
  \E k \in 1..Len(apiPending) :
    /\ apiPending[k].response # FetchFailed
    /\ apiPending' = [apiPending EXCEPT ![k].response = FetchFailed]
    /\ UNCHANGED <<apiStorageAreas, apiItems, apiIsLoading, apiError, srvAreas,
                   srvItems, nextId, now, nCalls, last, prev, idbStoreVars>>

\* the awaited call resolves: the handler goes on with its setState calls
ApiResolves ==
  \E k \in 1..Len(apiPending) :
    /\ IsOk(apiPending[k].response.status)
    /\ apiStorageAreas' = ResolvedAreas(apiStorageAreas, apiPending[k].call,
                                        apiPending[k].response.body)
    /\ apiItems' = ResolvedItems(apiItems, apiPending[k].call,
                                 apiPending[k].response.body)
    /\ apiPending' = RemoveAt(apiPending, k)
    /\ UNCHANGED <<apiIsLoading, apiError, srvAreas, srvItems, nextId, now,
                   nCalls, last, prev, idbStoreVars>>

\* the awaited call rejects with an Error: the catch block of the handler
ApiRejects ==
  \E k \in 1..Len(apiPending) :
    /\ apiPending[k].response # NoResponse
    /\ ~IsOk(apiPending[k].response.status)
    /\ apiError' = Some(apiPending[k].response.body)
    /\ apiPending' = RemoveAt(apiPending, k)
    /\ UNCHANGED <<apiStorageAreas, apiItems, apiIsLoading, srvAreas, srvItems,
                   nextId, now, nCalls, last, prev, idbStoreVars>>

NextApi ==
  \/ FetchDataResolves
  \/ FetchDataRejects
  \/ ApiAddStorageArea
  \/ ApiUpdateStorageArea
  \/ ApiDeleteStorageArea
  \/ ApiAddItem
  \/ ApiUpdateItemQuantity
  \/ ApiRemoveItem
  \/ ServerResponds
  \/ NetworkFails
  \/ ApiResolves
  \/ ApiRejects

SpecApi == InitApi /\ [][NextApi]_vars

(************** the database missing, failing and taking time ***************)
\* A database whose area table is empty while its item table is not: what a
\* session leaves that ended after reorderStorageAreas([]) was saved, or
\* after every area of a list was deleted while an item named another area.
OrphanedItems ==
  [items |->
     << [id |-> "a1", name |-> <<"M", "i">>, expiryDate |-> None,
         storageAreaId |-> "fridge", isOpened |-> FALSE, quantity |-> 2,
         createdAt |-> -4, openedAt |-> None] >>,
   areas |-> <<>>]

InitIdb ==
  /\ InitStore
  /\ \E p \in {q \in PersistedStates : q.areas = <<>> \/ q.items # <<>>}
              \cup {OrphanedItems} :
       dbAreas = p.areas /\ dbItems = p.items
  /\ tz = 0
  /\ idbAvailable \in BOOLEAN
  /\ srvAreas = defaultAreas
  /\ srvItems = <<>>

\* the ways loadPersistedState ends: isIndexedDBAvailable() is false; both
\* toArray() resolve (and bulkPut of the defaults, when it is called, too);
\* bulkPut of the defaults rejects; a toArray() rejects
LoadOutcomes == {"unavailable", "ok", "seedFailed", "failed"}

CanEnd(outcome) ==
  IF idbAvailable
  THEN outcome \in {"ok", "failed"}
         \/ (outcome = "seedFailed" /\ Len(dbAreas) = 0)
  ELSE outcome = "unavailable"

\* a mutant: the catch block of the load leaves isLoading as it is
LoadingAfterFailureStays(outcome) == outcome = "failed"

\* isLoading when loadPersistedState has ended: each of its branches calls
\* setIsLoading(false)
LoadingAfter(outcome) == FALSE

\* loadPersistedState, with the render of its batched setState calls and the
\* persist effects of that render, which find hasLoadedRef.current true
LoadPersistedState(outcome) ==
  /\ loaded.outcome = "pending"
  /\ CanEnd(outcome)
  /\ LET read == outcome \in {"ok", "seedFailed"}
     IN  /\ storageAreas' =
              IF read /\ Len(dbAreas) > 0
              THEN SortByOrder(dbAreas) ELSE DEFAULT_STORAGE_AREAS
         /\ items' = IF read
                     THEN (IF Len(dbItems) > 0 THEN dbItems ELSE items)
                     ELSE <<>>
         /\ loaded' = [items |-> IF read THEN dbItems ELSE <<>>,
                       areas |-> IF read THEN dbAreas ELSE <<>>,
                       outcome |-> outcome]
         /\ pendingItems' =
              IF idbAvailable /\ (~read \/ Len(dbItems) > 0)
              THEN Append(pendingItems, items') ELSE pendingItems
  /\ dbAreas' = IF outcome = "ok" /\ Len(dbAreas) = 0
                THEN SortByKey(DEFAULT_STORAGE_AREAS) ELSE dbAreas
  /\ areasSaved' = IF Len(dbAreas) > 0 THEN areasSaved
                   ELSE IF outcome = "ok" THEN "ok"
                   ELSE IF outcome = "seedFailed" THEN "failed"
                   ELSE areasSaved
  /\ pendingAreas' = IF idbAvailable
                     THEN Append(pendingAreas, storageAreas')
                     ELSE pendingAreas
  /\ isLoading' = LoadingAfter(outcome)
  /\ hasLoaded' = TRUE
  /\ UNCHANGED <<dbItems, nextId, now, tz, nCalls, last, prev, idbAvailable,
                 itemsSaved, sideVars>>

LoadEnds == \E outcome \in LoadOutcomes : LoadPersistedState(outcome)

\* the persist effects of a call start their transactions
QueueSaves(c) ==
  /\ pendingAreas' = IF SavesStorageAreas(c)
                     THEN Append(pendingAreas, storageAreas')
                     ELSE pendingAreas
  /\ pendingItems' = IF SavesItems(c)
                     THEN Append(pendingItems, items')
                     ELSE pendingItems
  /\ UNCHANGED <<dbAreas, dbItems, areasSaved, itemsSaved>>

\* one handler call whose saves end later
CallThenSave(c) ==
  /\ ~isLoading
  /\ Mutate(c)
  /\ QueueSaves(c)

AddItemThenSave ==
  CallThenSave([name |-> <<"M", "i">>, expiryDate |-> None,
                storageAreaId |-> "fridge", quantity |-> 1, op |-> "addItem"])

RemoveItemThenSave ==
  \E id \in ItemIds : CallThenSave([id |-> id, op |-> "removeItem"])

DeleteStorageAreaThenSave ==
  CallThenSave([id |-> "fridge", op |-> "deleteStorageArea"])

\* the ids of the list with the first one repeated: the list that follows
\* holds that area twice, and bulkAdd rejects the second
ReorderStorageAreasThenSave ==
  /\ storageAreas # <<>>
  /\ CallThenSave([ids |-> [i \in 1..Len(storageAreas) |-> storageAreas[i].id]
                             \o <<storageAreas[1].id>>,
                   op |-> "reorderStorageAreas"])

\* the oldest persistAreas transaction commits: clear() and bulkAdd() done
SaveAreasCommits ==
  /\ pendingAreas # <<>>
  /\ ~HasDuplicateKey(Head(pendingAreas))
  /\ dbAreas' = PersistTable(dbAreas, Head(pendingAreas))
  /\ pendingAreas' = Tail(pendingAreas)
  /\ areasSaved' = "ok"
  /\ UNCHANGED <<storageAreas, items, isLoading, hasLoaded, dbItems, nextId,
                 now, tz, nCalls, last, prev, idbAvailable, loaded,
                 pendingItems, itemsSaved, sideVars>>

\* a mutant of the catch block: the area list is reset to the stored one
SaveAreasFailsAndRollsBack ==
  /\ pendingAreas # <<>>
  /\ pendingAreas' = Tail(pendingAreas)
  /\ areasSaved' = "failed"
  /\ storageAreas' = SortByOrder(dbAreas)
  /\ UNCHANGED <<items, isLoading, hasLoaded, dbAreas, dbItems,
                 nextId, now, tz, nCalls, last, prev, idbAvailable, loaded,
                 pendingItems, itemsSaved, sideVars>>

\* the oldest persistAreas transaction aborts (a key occurs twice, or the
\* database fails): the table is as before, the catch block logs a warning
SaveAreasFails ==
  /\ pendingAreas # <<>>
  /\ pendingAreas' = Tail(pendingAreas)
  /\ areasSaved' = "failed"
  /\ UNCHANGED <<storageAreas, items, isLoading, hasLoaded, dbAreas, dbItems,
                 nextId, now, tz, nCalls, last, prev, idbAvailable, loaded,
                 pendingItems, itemsSaved, sideVars>>

\* the oldest persistItems transaction commits
SaveItemsCommits ==
  /\ pendingItems # <<>>
  /\ ~HasDuplicateKey(Head(pendingItems))
  /\ dbItems' = PersistTable(dbItems, Head(pendingItems))
  /\ pendingItems' = Tail(pendingItems)
  /\ itemsSaved' = "ok"
  /\ UNCHANGED <<storageAreas, items, isLoading, hasLoaded, dbAreas, nextId,
                 now, tz, nCalls, last, prev, idbAvailable, loaded,
                 pendingAreas, areasSaved, sideVars>>

\* the oldest persistItems transaction aborts
SaveItemsFails ==
  /\ pendingItems # <<>>
  /\ pendingItems' = Tail(pendingItems)
  /\ itemsSaved' = "failed"
  /\ UNCHANGED <<storageAreas, items, isLoading, hasLoaded, dbAreas, dbItems,
                 nextId, now, tz, nCalls, last, prev, idbAvailable, loaded,
                 pendingAreas, areasSaved, sideVars>>

NextIdb ==
  \/ LoadEnds
  \/ AddItemThenSave
  \/ RemoveItemThenSave
  \/ DeleteStorageAreaThenSave
  \/ ReorderStorageAreasThenSave
  \/ SaveAreasCommits
  \/ SaveAreasFails
  \/ SaveItemsCommits
  \/ SaveItemsFails

SpecIdb == InitIdb /\ [][NextIdb]_vars

\* every promise of the database settles: the load ends, and each
\* transaction commits or aborts
FairIdb ==
  /\ SpecIdb
  /\ WF_vars(LoadEnds)
  /\ WF_vars(SaveAreasCommits \/ SaveAreasFails)
  /\ WF_vars(SaveItemsCommits \/ SaveItemsFails)

(************************* vocabulary of the claims **************************)
IdsOf(list) == {list[i].id : i \in 1..Len(list)}

\* a call of addItem that passes the handler's validation
IsValidAdd(c) == c.op = "addItem" /\ Trim(c.name) # <<>> /\ c.quantity >= 1

SameNameIgnoringCase(a, b) == ToLowerCase(Trim(a)) = ToLowerCase(Trim(b))

\* the positions of the records of that name, whatever its case, in that area
NamedIn(list, name, storageAreaId) ==
  {i \in 1..Len(list) :
     /\ list[i].storageAreaId = storageAreaId
     /\ SameNameIgnoringCase(list[i].name, name)}

\* the positions of the unopened records with that merge key
UnopenedWithKey(list, name, storageAreaId, expiryDate) ==
  {i \in NamedIn(list, name, storageAreaId) :
     ~list[i].isOpened /\ list[i].expiryDate = expiryDate}

\* the positions of the records with that id
WithId(list, id) == {i \in 1..Len(list) : list[i].id = id}

(********************************* C1 ***************************************)
\* the two last calls are valid addItem calls with the same area, the same
\* name up to case and the same expiry date, and the first one created a record
C1_TwoAdds ==
  /\ IsValidAdd(prev.call)
  /\ IsValidAdd(last.call)
  /\ last.call.storageAreaId = prev.call.storageAreaId
  /\ SameNameIgnoringCase(last.call.name, prev.call.name)
  /\ last.call.expiryDate = prev.call.expiryDate
  /\ UnopenedWithKey(prev.items, prev.call.name, prev.call.storageAreaId,
                     prev.call.expiryDate) = {}

\* C1: addItem(name, q1, area) followed by addItem(name2, q2, area), name2
\* equal to name ignoring case, same expiry date, leaves exactly one item for
\* that merge key (and exactly one for that name in that area when there was
\* none before); its quantity is q1 + q2 and its id and createdAt are those
\* of the record that the first call created.
C1_AddTwiceMerges ==
  C1_TwoAdds =>
    LET c1 == prev.call
        c2 == last.call
        created == last.items[Len(last.items)]
        merged == UnopenedWithKey(items, c1.name, c1.storageAreaId,
                                  c1.expiryDate)
    IN  /\ Len(last.items) = Len(prev.items) + 1
        /\ created.id \notin IdsOf(prev.items)
        /\ created.quantity = c1.quantity
        /\ Len(items) = Len(last.items)
        /\ Cardinality(merged) = 1
        /\ \A i \in merged :
             /\ items[i].quantity = c1.quantity + c2.quantity
             /\ items[i].id = created.id
             /\ items[i].createdAt = created.createdAt
        /\ Cardinality(NamedIn(items, c1.name, c1.storageAreaId))
             = Cardinality(NamedIn(prev.items, c1.name, c1.storageAreaId)) + 1

\* "Mi" then "mi" with different quantities into an area that had no such
\* item: one record holds the sum
C1_Witness ==
  /\ C1_TwoAdds
  /\ prev.call.name # last.call.name
  /\ prev.call.quantity # last.call.quantity
  /\ NamedIn(prev.items, prev.call.name, prev.call.storageAreaId) = {}
  /\ \E i \in 1..Len(items) :
       /\ NamedIn(items, prev.call.name, prev.call.storageAreaId) = {i}
       /\ items[i].quantity = prev.call.quantity + last.call.quantity

(********************************* C2 ***************************************)
\* C2: addItem never changes an item that is opened or whose expiryDate
\* differs from the argument; when every item of that name in that area is
\* such an item, it appends a new unopened item.  After a full open of the
\* only item of a name in an area, an addItem of that name to that area
\* leaves exactly two such items: the opened one with its quantity and an
\* unopened one with the added quantity.
C2_NeverMergesOpenedOrOtherExpiry ==
  IsValidAdd(last.call) =>
    LET c == last.call
        pre == last.items
        name == Trim(c.name)
        area == c.storageAreaId
    IN  /\ Len(items) >= Len(pre)
        /\ \A i \in 1..Len(pre) :
             (pre[i].isOpened \/ pre[i].expiryDate # c.expiryDate)
               => items[i] = pre[i]
        /\ UnopenedWithKey(pre, name, area, c.expiryDate) = {} =>
             /\ Len(items) = Len(pre) + 1
             /\ items[Len(items)].id \notin IdsOf(pre)
             /\ items[Len(items)] =
                  [id |-> items[Len(items)].id, name |-> name,
                   expiryDate |-> c.expiryDate, storageAreaId |-> area,
                   isOpened |-> FALSE, quantity |-> c.quantity,
                   createdAt |-> items[Len(items)].createdAt,
                   openedAt |-> None]
        /\ \A j \in 1..Len(prev.items) :
             ( /\ prev.call.op = "openItem"
               /\ prev.call.id = prev.items[j].id
               /\ prev.call.quantityToOpen >= prev.items[j].quantity
               /\ prev.items[j].storageAreaId = area
               /\ NamedIn(prev.items, name, area) = {j} )
             => \E k \in 1..Len(items) :
                  /\ k # j
                  /\ NamedIn(items, name, area) = {j, k}
                  /\ items[j].isOpened
                  /\ items[j].quantity = prev.items[j].quantity
                  /\ ~items[k].isOpened
                  /\ items[k].quantity = c.quantity

\* all of a 2-unit item was opened and then 3 of the same name were added
C2_Witness ==
  /\ prev.call.op = "openItem"
  /\ IsValidAdd(last.call)
  /\ last.call.quantity = 3
  /\ \E j, k \in 1..Len(items) :
       /\ NamedIn(prev.items, last.call.name, last.call.storageAreaId) = {j}
       /\ prev.call.id = prev.items[j].id
       /\ prev.items[j].quantity = 2
       /\ NamedIn(items, last.call.name, last.call.storageAreaId) = {j, k}
       /\ items[j].isOpened /\ items[j].quantity = 2
       /\ ~items[k].isOpened /\ items[k].quantity = 3
       /\ items[k].expiryDate = prev.items[j].expiryDate

(********************************* C3 ***************************************)
\* the last call is openItem(id, k) on the unopened record at position j,
\* of quantity Q, with 1 <= k < Q
C3_PartialOpen(j) ==
  /\ last.call.op = "openItem"
  /\ WithId(last.items, last.call.id) = {j}
  /\ ~last.items[j].isOpened
  /\ 1 <= last.call.quantityToOpen
  /\ last.call.quantityToOpen < last.items[j].quantity

\* C3: a partial openItem yields two records in place of one: the original,
\* unchanged but for its quantity Q - k, and a new opened record with a
\* fresh id, the same name, area and createdAt, quantity k and openedAt set;
\* all other items are unchanged.
C3_PartialOpenSplits ==
  \A j \in 1..Len(last.items) :
    C3_PartialOpen(j) =>
      LET pre == last.items
          k == last.call.quantityToOpen
          opened == items[Len(items)]
      IN  /\ Len(items) = Len(pre) + 1
          /\ \A i \in 1..Len(pre) :
               items[i] = IF i = j
                          THEN [pre[j] EXCEPT !.quantity = pre[j].quantity - k]
                          ELSE pre[i]
          /\ opened.id \notin IdsOf(pre)
          /\ opened.name = pre[j].name
          /\ opened.storageAreaId = pre[j].storageAreaId
          /\ opened.createdAt = pre[j].createdAt
          /\ opened.quantity = k
          /\ opened.isOpened
          /\ opened.openedAt # None

\* one unit of a 2-unit item was opened while another item was in the list
C3_Witness ==
  \E j \in 1..Len(last.items) :
    /\ C3_PartialOpen(j)
    /\ Len(last.items) >= 2
    /\ items[j].quantity = 1
    /\ items[Len(items)].isOpened
    /\ items[Len(items)].quantity = 1

(********************************* C4 ***************************************)
\* the last call is openItem(id, k) on the record at position j with k >= Q
C4_FullOpen(j) ==
  /\ last.call.op = "openItem"
  /\ WithId(last.items, last.call.id) = {j}
  /\ last.call.quantityToOpen >= last.items[j].quantity

\* C4: a full openItem changes the record in place: no record is added or
\* removed in any area, the record keeps its id and quantity, isOpened
\* becomes true and openedAt is set.
C4_FullOpenInPlace ==
  \A j \in 1..Len(last.items) :
    C4_FullOpen(j) =>
      LET pre == last.items
      IN  /\ Len(items) = Len(pre)
          /\ \A i \in 1..Len(pre) :
               /\ items[i].id = pre[i].id
               /\ items[i].storageAreaId = pre[i].storageAreaId
          /\ items[j].quantity = pre[j].quantity
          /\ items[j].isOpened
          /\ items[j].openedAt # None

\* all of an unopened 2-unit item was opened with k equal to its quantity
C4_Witness ==
  \E j \in 1..Len(last.items) :
    /\ C4_FullOpen(j)
    /\ ~last.items[j].isOpened
    /\ last.call.quantityToOpen = last.items[j].quantity
    /\ items[j].isOpened
    /\ items[j].quantity = 2

(********************************* C5 ***************************************)
\* C5: every item in the item list has quantity >= 1.
C5_QuantityAtLeastOne == \A i \in 1..Len(items) : items[i].quantity >= 1

(********************************* C6 ***************************************)
\* the last call is deleteStorageArea(id) for an area that was in the list
C6_DeleteExisting ==
  /\ last.call.op = "deleteStorageArea"
  /\ last.call.id \in IdsOf(last.storageAreas)

\* C6: deleteStorageArea(id) for an existing area removes that area and no
\* other, removes every item whose storageAreaId is id, and leaves the items
\* of the other areas unchanged and in their order.
C6_DeleteCascades ==
  C6_DeleteExisting =>
    LET id == last.call.id
        pre == last.items
        kept == {i \in 1..Len(pre) : pre[i].storageAreaId # id}
        rank(i) == Cardinality({j \in kept : j <= i})
    IN  /\ IdsOf(storageAreas) = IdsOf(last.storageAreas) \ {id}
        /\ \A i \in 1..Len(items) : items[i].storageAreaId # id
        /\ Len(items) = Cardinality(kept)
        /\ \A i \in kept : items[rank(i)] = pre[i]

\* an area holding an item was deleted while another area held one too
C6_Witness ==
  /\ C6_DeleteExisting
  /\ \E i \in 1..Len(last.items) : last.items[i].storageAreaId = last.call.id
  /\ Len(items) >= 1
  /\ Len(items) < Len(last.items)
  /\ Len(storageAreas) = Len(last.storageAreas) - 1

(********************************* C7 ***************************************)
\* C7: after any store operation, every item's storageAreaId is the id of an
\* area that is in the area list.
C7_ItemsReferenceListedAreas ==
  last.call.op # "none" =>
    \A i \in 1..Len(items) : items[i].storageAreaId \in IdsOf(storageAreas)

(********************************* C8 ***************************************)
\* C8: once the store has loaded, the set of order values of the areas is
\* exactly {0, ..., n-1} for n areas.
C8_OrdersAreContiguous ==
  hasLoaded =>
    {storageAreas[i].order : i \in 1..Len(storageAreas)}
      = 0..(Len(storageAreas) - 1)

(********************************* C9 ***************************************)
\* C9: no state that readers see has the deleted area out of the area list
\* while items of that area are in the item list, nor the items out while
\* the area is listed.
C9_CascadeIsAtomic ==
  last.call.op = "deleteStorageArea" =>
    LET id == last.call.id
        areaListed == id \in IdsOf(storageAreas)
        itemsListed == \E i \in 1..Len(items) : items[i].storageAreaId = id
        itemsRemoved == \E i \in 1..Len(last.items) :
                          /\ last.items[i].storageAreaId = id
                          /\ last.items[i].id \notin IdsOf(items)
    IN  /\ ~(~areaListed /\ itemsListed)
        /\ ~(itemsRemoved /\ areaListed)

\* the area and its items left the two lists in the same step
C9_Witness ==
  /\ last.call.op = "deleteStorageArea"
  /\ last.call.id \in IdsOf(last.storageAreas)
  /\ last.call.id \notin IdsOf(storageAreas)
  /\ \E i \in 1..Len(last.items) : last.items[i].storageAreaId = last.call.id
  /\ \A i \in 1..Len(items) : items[i].storageAreaId # last.call.id

(********************************* C10 **************************************)
\* the last call is reorderStorageAreas(ids) and ids lists every area id
\* exactly once
C10_FullReorder ==
  /\ last.call.op = "reorderStorageAreas"
  /\ Len(last.call.ids) = Len(last.storageAreas)
  /\ {last.call.ids[i] : i \in 1..Len(last.call.ids)}
       = IdsOf(last.storageAreas)
  /\ \A i, j \in 1..Len(last.call.ids) :
       last.call.ids[i] = last.call.ids[j] => i = j

\* C10: reorderStorageAreas(ids) with every area id listed once yields the
\* same areas in the sequence of ids, each with order equal to its position
\* and with id, name, icon and color unchanged.
C10_ReorderIsPermutation ==
  C10_FullReorder =>
    LET ids == last.call.ids
        pre == last.storageAreas
    IN  /\ Len(storageAreas) = Len(ids)
        /\ \A i \in 1..Len(ids) :
             /\ storageAreas[i].id = ids[i]
             /\ storageAreas[i].order = i - 1
             /\ \E j \in 1..Len(pre) :
                  /\ pre[j].id = ids[i]
                  /\ storageAreas[i].name = pre[j].name
                  /\ storageAreas[i].icon = pre[j].icon
                  /\ storageAreas[i].color = pre[j].color

\* [A(0), B(1), C(2)] reordered with [C, B, A] is [C(0), B(1), A(2)]
C10_Witness ==
  /\ C10_FullReorder
  /\ Len(storageAreas) = 3
  /\ \A i \in 1..3 :
       /\ last.storageAreas[i].order = i - 1
       /\ last.call.ids[i] = last.storageAreas[4 - i].id
       /\ storageAreas[i].id = last.storageAreas[4 - i].id
       /\ storageAreas[i].order = i - 1

(********************************* C11 **************************************)
\* C11: reorderStorageAreas(ids), for any id list, leaves the set of area ids
\* as it was before the call: unknown ids are dropped and no area is added
\* or removed.
C11_ReorderKeepsMembership ==
  last.call.op = "reorderStorageAreas" =>
    IdsOf(storageAreas) = IdsOf(last.storageAreas)

(********************************* C12 **************************************)
\* C12: updateStorageArea(id, updates) sets only the provided name, icon and
\* color of the area with that id and changes the order of no area, whatever
\* the updates carry; the other areas and all items are unchanged.
C12_UpdateNeverChangesOrder ==
  last.call.op = "updateStorageArea" =>
    LET pre == last.storageAreas
        u == last.call.updates
    IN  /\ Len(storageAreas) = Len(pre)
        /\ \A i \in 1..Len(pre) :
             /\ storageAreas[i].order = pre[i].order
             /\ storageAreas[i].id = pre[i].id
             /\ pre[i].id # last.call.id => storageAreas[i] = pre[i]
             /\ pre[i].id = last.call.id =>
                  /\ storageAreas[i].name =
                       IF u.name # None THEN u.name[1] ELSE pre[i].name
                  /\ storageAreas[i].icon =
                       IF u.icon # None THEN u.icon[1] ELSE pre[i].icon
                  /\ storageAreas[i].color =
                       IF u.color # None THEN u.color[1] ELSE pre[i].color
        /\ items = last.items

(********************************* C13 **************************************)
\* C13: deleteStorageArea(id) of an existing area leaves the other areas in
\* their previous relative order, with order 0..n-1 by position and their
\* other fields unchanged.
C13_DeleteRenumbers ==
  C6_DeleteExisting =>
    LET id == last.call.id
        pre == last.storageAreas
        kept == {i \in 1..Len(pre) : pre[i].id # id}
        rank(i) == Cardinality({j \in kept : j <= i})
    IN  /\ Len(storageAreas) = Cardinality(kept)
        /\ \A i \in kept :
             /\ storageAreas[rank(i)].id = pre[i].id
             /\ storageAreas[rank(i)].name = pre[i].name
             /\ storageAreas[rank(i)].icon = pre[i].icon
             /\ storageAreas[rank(i)].color = pre[i].color
        /\ \A k \in 1..Len(storageAreas) : storageAreas[k].order = k - 1

\* the first of three areas with orders 0, 1, 2 was deleted: the other two
\* have orders 0, 1 and are in their previous relative order
C13_Witness ==
  /\ C6_DeleteExisting
  /\ Len(last.storageAreas) = 3
  /\ \A i \in 1..3 : last.storageAreas[i].order = i - 1
  /\ last.call.id = last.storageAreas[1].id
  /\ Len(storageAreas) = 2
  /\ \A k \in 1..2 :
       /\ storageAreas[k].id = last.storageAreas[k + 1].id
       /\ storageAreas[k].order = k - 1

(********************************* C14 **************************************)
\* the last call destroys the item: removeItem(id), or updateItemQuantity
\* (id, q) with q < 1
C14_Destroys ==
  \/ last.call.op = "removeItem"
  \/ last.call.op = "updateItemQuantity" /\ last.call.quantity < 1

\* C14: updateItemQuantity(id, q) with q < 1, like removeItem(id), removes the
\* item with that id and no other; with q >= 1 it sets the quantity of that
\* item to q in place and changes no other field and no other item.
C14_UpdateQuantity ==
  LET id == last.call.id
      pre == last.items
      kept == {i \in 1..Len(pre) : pre[i].id # id}
      rank(i) == Cardinality({j \in kept : j <= i})
  IN  /\ C14_Destroys =>
           /\ Len(items) = Cardinality(kept)
           /\ \A i \in kept : items[rank(i)] = pre[i]
      /\ (last.call.op = "updateItemQuantity" /\ last.call.quantity >= 1) =>
           /\ Len(items) = Len(pre)
           /\ \A i \in 1..Len(pre) :
                items[i] = IF pre[i].id = id
                           THEN [pre[i] EXCEPT !.quantity = last.call.quantity]
                           ELSE pre[i]

\* updateItemQuantity(id, 0) removed one of several items
C14_Witness ==
  /\ last.call.op = "updateItemQuantity"
  /\ last.call.quantity = 0
  /\ last.call.id \in IdsOf(last.items)
  /\ last.call.id \notin IdsOf(items)
  /\ Len(items) = Len(last.items) - 1
  /\ Len(items) >= 1

(********************************* C15 **************************************)
\* the calendar day, in the local zone, on which the last call was made
C15_Today == (now - 1 + tz) \div DAY

\* the expiry date the opened portion is to get, with dates in whole days
C15_Expected(expiryDate) ==
  IF expiryDate = None THEN None
  ELSE LET daysLeft == expiryDate[1] - C15_Today
       IN  IF daysLeft > 1
           THEN Some(C15_Today + Max(1, daysLeft \div 2))
           ELSE expiryDate

\* C15: when openItem opens an item whose expiry is daysLeft days after
\* today, the expiry of the opened portion is today + max(1, daysLeft div 2)
\* if daysLeft > 1 and the item's expiry otherwise (also when it has none);
\* the unopened remainder of a split keeps the item's expiry.
C15_OpenedExpiry ==
  \A j \in 1..Len(last.items) :
    (last.call.op = "openItem" /\ WithId(last.items, last.call.id) = {j}) =>
      LET pre == last.items[j]
      IN  IF last.call.quantityToOpen >= pre.quantity
          THEN items[j].expiryDate = C15_Expected(pre.expiryDate)
          ELSE /\ items[j].expiryDate = pre.expiryDate
               /\ items[Len(items)].expiryDate
                    = C15_Expected(pre.expiryDate)

(********************************* C16 **************************************)
\* C16: in every step, a record that is opened is still opened after the
\* step if a record with its id is still in the item list.
C16_OpenedIsTerminal ==
  [][\A i \in 1..Len(items) :
       items[i].isOpened =>
         \A k \in 1..Len(items') :
           items'[k].id = items[i].id => items'[k].isOpened]_vars

\* openItem was called on a record that was opened already, and the record
\* is still opened
C16_Witness ==
  \E j \in 1..Len(last.items) :
    /\ last.call.op = "openItem"
    /\ last.call.id = last.items[j].id
    /\ last.items[j].isOpened
    /\ \E k \in 1..Len(items) :
         items[k].id = last.items[j].id /\ items[k].isOpened

(********************************* C17 **************************************)
\* C17: in every step, every record that is still in the item list after the
\* step has the createdAt it had before, and the record that a split
\* appends has the createdAt of the record it was split from.
C17_CreatedAtIsImmutable ==
  [][/\ \A i \in 1..Len(items) :
          \A k \in 1..Len(items') :
            items'[k].id = items[i].id
              => items'[k].createdAt = items[i].createdAt
     /\ \A j \in 1..Len(items) :
          ( /\ last'.call.op = "openItem"
            /\ WithId(items, last'.call.id) = {j}
            /\ Len(items') = Len(items) + 1 )
          => items'[Len(items')].createdAt = items[j].createdAt]_vars

\* a split appended an opened record that carries the createdAt of the
\* record it came from, which is not the time of the split
C17_Witness ==
  \E j \in 1..Len(last.items) :
    /\ last.call.op = "openItem"
    /\ WithId(last.items, last.call.id) = {j}
    /\ Len(items) = Len(last.items) + 1
    /\ items[j].createdAt = last.items[j].createdAt
    /\ items[Len(items)].createdAt = last.items[j].createdAt
    /\ items[Len(items)].createdAt # now - 1

(********************************* C18 **************************************)
\* C18: an item has openedAt set if and only if it is opened.
C18_OpenedAtIffOpened ==
  \A i \in 1..Len(items) : items[i].isOpened <=> items[i].openedAt # None

\* after an openItem, the list holds an opened record with openedAt set and
\* an unopened one without
C18_Witness ==
  /\ last.call.op = "openItem"
  /\ \E i, k \in 1..Len(items) :
       /\ items[i].isOpened
       /\ items[i].openedAt = Some(now - 1)
       /\ ~items[k].isOpened
       /\ items[k].openedAt = None

(********************************* C19 **************************************)
\* the last call is addStorageArea with a name that is not empty when trimmed
C19_ValidAddArea ==
  last.call.op = "addStorageArea" /\ Trim(last.call.name) # <<>>

\* C19: addStorageArea with a valid name appends exactly one area, with a
\* fresh id, the trimmed name, the given icon and color and order equal to
\* the number of areas before the call; the areas that were there and all
\* items are unchanged.
C19_AddAreaAppends ==
  C19_ValidAddArea =>
    LET pre == last.storageAreas
        new == storageAreas[Len(storageAreas)]
    IN  /\ Len(storageAreas) = Len(pre) + 1
        /\ \A i \in 1..Len(pre) : storageAreas[i] = pre[i]
        /\ new.id \notin IdsOf(pre)
        /\ new.name = Trim(last.call.name)
        /\ new.icon = last.call.icon
        /\ new.color = last.call.color
        /\ new.order = Len(pre)
        /\ items = last.items

\* " Mi " was added to the three default areas while items were stored: the
\* fourth area is "Mi" with order 3
C19_Witness ==
  /\ C19_ValidAddArea
  /\ last.call.name # Trim(last.call.name)
  /\ Len(last.storageAreas) = 3
  /\ Len(storageAreas) = 4
  /\ storageAreas[4].name = <<"M", "i">>
  /\ storageAreas[4].order = 3
  /\ Len(items) >= 1

(********************************* C20 **************************************)
\* the last call is addStorageArea with a name that is empty when trimmed, or
\* addItem with such a name or with quantity < 1
C20_InvalidInput ==
  \/ last.call.op = "addStorageArea" /\ Trim(last.call.name) = <<>>
  \/ /\ last.call.op = "addItem"
     /\ (Trim(last.call.name) = <<>> \/ last.call.quantity < 1)

\* C20: a call with invalid input leaves the area list and the item list as
\* they were.
C20_InvalidInputIsNoOp ==
  C20_InvalidInput =>
    /\ storageAreas = last.storageAreas
    /\ items = last.items

\* addItem with quantity 0 and a valid name was called on a loaded store
\* that holds no item of that name, and nothing was added
C20_Witness ==
  /\ C20_InvalidInput
  /\ last.call.op = "addItem"
  /\ Trim(last.call.name) # <<>>
  /\ last.call.quantity = 0
  /\ hasLoaded
  /\ Len(storageAreas) >= 1
  /\ NamedIn(last.items, last.call.name, last.call.storageAreaId) = {}
  /\ items = last.items

(********************************* C21 **************************************)
\* C21: addItem with a storageAreaId that is the id of no area leaves the
\* item list as it was before the call.
C21_UnknownAreaIsRejected ==
  (last.call.op = "addItem"
     /\ last.call.storageAreaId \notin IdsOf(last.storageAreas))
    => items = last.items

(********************************* C22 **************************************)
C22_AreaKeyed == {"updateStorageArea", "deleteStorageArea"}

C22_ItemKeyed == {"updateItemQuantity", "removeItem", "openItem"}

\* the call of that history record found the record that its id names
C22_Found(h) ==
  \/ h.call.op \in C22_AreaKeyed /\ h.call.id \in IdsOf(h.storageAreas)
  \/ h.call.op \in C22_ItemKeyed /\ h.call.id \in IdsOf(h.items)

\* the id of the call of that history record is the id of no area and no item
C22_NotFound(h) ==
  /\ h.call.op \in C22_AreaKeyed \cup C22_ItemKeyed
  /\ h.call.id \notin IdsOf(h.storageAreas) \cup IdsOf(h.items)

\* C22: when an id-keyed operation is called with an id that exists and then
\* again with an id that exists nowhere, what the second call hands back to
\* its caller differs from what the first one did.
C22_NotFoundIsSignalled ==
  (C22_Found(prev) /\ C22_NotFound(last) /\ last.call.op = prev.call.op)
    => last.returned # prev.returned

(********************************* C23 **************************************)
\* C23: once the store has loaded, the name of every area is non-empty and
\* has no leading or trailing whitespace.
C23_AreaNamesAreTrimmed ==
  hasLoaded =>
    \A i \in 1..Len(storageAreas) :
      /\ storageAreas[i].name # <<>>
      /\ Trim(storageAreas[i].name) = storageAreas[i].name

(********************************* C24 **************************************)
\* C24: while the initial load has not completed, no call has changed the
\* area list or the item list: both are the lists the store was created with.
C24_NoMutationWhileLoading ==
  isLoading => storageAreas = <<>> /\ items = <<>>

(********************************* C25 **************************************)
\* a save of the area collection or of the item collection fails
C25_SaveFails ==
  \/ Len(pendingAreas') < Len(pendingAreas) /\ areasSaved' = "failed"
  \/ Len(pendingItems') < Len(pendingItems) /\ itemsSaved' = "failed"

\* a call of addItem with a name that is not blank and a quantity of 1 or more
C25_AddItemCall ==
  /\ nCalls' = nCalls + 1
  /\ last'.call.op = "addItem"
  /\ Trim(last'.call.name) # <<>>
  /\ last'.call.quantity >= 1

\* C25: the step in which a save fails changes neither the area list nor the
\* item list and hands nothing to the caller of the mutation, whose call has
\* returned; and a mutation called after a failed save is applied as ever.
C25_FailedSaveKeepsMemory ==
  [][ /\ C25_SaveFails =>
           /\ storageAreas' = storageAreas
           /\ items' = items
           /\ last' = last
      /\ (C25_AddItemCall /\ "failed" \in {areasSaved, itemsSaved}) =>
           /\ items' # items
           /\ \E i \in 1..Len(items') :
                SameNameIgnoringCase(items'[i].name, last'.call.name)
           /\ last'.returned = "undefined" ]_vars

\* a save has failed and the lists in memory are not the stored ones, and a
\* call was accepted after a failed save
C25_Witness ==
  /\ areasSaved = "failed"
  /\ pendingAreas = <<>>
  /\ dbAreas # SortByKey(storageAreas)
  /\ last.call.op = "addItem"
  /\ items # last.items

(********************************* C26 **************************************)
\* C26: when the initial load returned no areas (and the write of the
\* defaults succeeded), the store leaves the loading state with the three
\* default areas as its area list, the defaults stored in the database, and
\* an empty item list.
C26_EmptyLoadSeedsDefaults ==
  (~isLoading /\ nCalls = 0 /\ loaded.outcome = "ok" /\ loaded.areas = <<>>)
    => /\ storageAreas = DEFAULT_STORAGE_AREAS
       /\ dbAreas = SortByKey(DEFAULT_STORAGE_AREAS)
       /\ items = <<>>

(********************************* C27 **************************************)
\* no save is under way and the last save of each collection did not fail
C27_SavesDone ==
  /\ idbAvailable /\ hasLoaded
  /\ pendingAreas = <<>> /\ areasSaved # "failed"
  /\ pendingItems = <<>> /\ itemsSaved # "failed"

\* C27: after the load, whenever no save is under way and the last saves did
\* not fail, each stored collection holds the records of the list in memory;
\* and from some point on no save is under way any more.
C27_WriteThrough ==
  /\ [](C27_SavesDone =>
          /\ dbAreas = SortByKey(storageAreas)
          /\ dbItems = SortByKey(items))
  /\ <>[](hasLoaded /\ pendingAreas = <<>> /\ pendingItems = <<>>)

\* two mutations were made, the saves are done, and a record was removed
C27_Witness ==
  /\ C27_SavesDone
  /\ nCalls = 2
  /\ last.call.op \in {"removeItem", "deleteStorageArea"}
  /\ Len(items) < Len(last.items) \/ Len(storageAreas) < Len(last.storageAreas)
  /\ areasSaved = "ok" /\ itemsSaved = "ok"

(********************************* C29 **************************************)
\* C29: whatever the database does, isLoading becomes false and is never
\* true again.
C29_LoadingEnds == <>[](~isLoading)

\* the load has failed, or found no database, and the store is not loading
C29_Witness ==
  ~isLoading /\ loaded.outcome \in {"failed", "unavailable", "seedFailed"}

(********************************* C28 **************************************)
\* how often that record occurs in that list
C28_Count(list, r) == Cardinality({i \in 1..Len(list) : list[i] = r})

\* that list holds exactly those records of the item list, each as often,
\* whose storageAreaId is that id
C28_ExactlyTheItemsOf(list, storageAreaId) ==
  /\ \A j \in 1..Len(list) :
       /\ list[j].storageAreaId = storageAreaId
       /\ C28_Count(list, list[j]) = C28_Count(items, list[j])
  /\ \A i \in 1..Len(items) :
       items[i].storageAreaId = storageAreaId =>
         C28_Count(list, items[i]) > 0

C28_OrderedByName(list) ==
  \A i, j \in 1..Len(list) :
    i < j => localeCompare(list[i].name, list[j].name) <= 0

\* C28: what getItemsForArea returns is exactly the items of that area,
\* ordered by name; what getItemCountForArea returns is the sum of their
\* quantities; and a call of either leaves the area list and the item list
\* as they are, contents and order.
C28_GettersReadOnly ==
  [][ got' # got =>
        /\ items' = items
        /\ storageAreas' = storageAreas
        /\ got'.op = "getItemsForArea" =>
             /\ C28_ExactlyTheItemsOf(got'.answer, got'.storageAreaId)
             /\ C28_OrderedByName(got'.answer)
        /\ got'.op = "getItemCountForArea" =>
             got'.answer =
               SumQuantity(getItemsForArea(items, got'.storageAreaId)) ]_vars

\* getItemsForArea returned two items in another order than the item list's
C28_Witness ==
  /\ got.op = "getItemsForArea"
  /\ Len(got.answer) = 2
  /\ got.answer # FilterByArea(items, got.storageAreaId)
  /\ Len(items) = 3

(********************************* C30 **************************************)
\* this step settles the k-th remote call, which resolves
C30_Resolves(k) ==
  /\ IsOk(apiPending[k].response.status)
  /\ apiPending' = RemoveAt(apiPending, k)

\* this step settles the k-th remote call, which rejects
C30_Rejects(k) ==
  /\ apiPending[k].response # NoResponse
  /\ ~IsOk(apiPending[k].response.status)
  /\ apiPending' = RemoveAt(apiPending, k)

BodyQuantities == {-1, 0, 1, 2}

\* the backend has answered a request: R is what the route left in the tables
\* and what it sent
Answered(R) ==
  /\ nCalls < MaxCalls
  /\ srvItems' = R.items
  /\ srvAreas' = R.areas
  /\ nextId' = nextId + 1
  /\ now' = now + 1
  /\ nCalls' = nCalls + 1
  /\ UNCHANGED <<apiStorageAreas, apiItems, apiIsLoading, apiError,
                 apiPending, last, prev, idbStoreVars>>

\* POST /api/items from any client, with any body
PostItemRequest ==
  \E name \in {<<"M", "i">>, <<"m", "i">>, <<"i">>},
     quantity \in BodyQuantities, storageAreaId \in {"fridge", "ghost"} :
    Answered(PostItem([items |-> srvItems, areas |-> srvAreas], name,
                      quantity, storageAreaId, generateId(nextId), now))

\* PUT /api/items/:id from any client, with any quantity in the body
PutItemRequest ==
  \E id \in IdsOf(srvItems) \cup {"ghost"}, quantity \in BodyQuantities :
    Answered(PutItem([items |-> srvItems, areas |-> srvAreas], id, quantity))

NextBackend ==
  \/ PostItemRequest
  \/ PutItemRequest

SpecBackend == InitApi /\ [][NextBackend]_vars

(************************** the App and its cards ***************************)
Min(a, b) == IF a <= b THEN a ELSE b

\* getStartOfDay(timestamp) of StorageAreaCard: local midnight of its day
getStartOfDay(timestamp, z) == LocalMidnight(timestamp, z)

\* a row of one record; mergedIds is <<>> where the code leaves it undefined
RowOf(item, mergedIds) ==
  [id |-> item.id, name |-> item.name, expiryDate |-> item.expiryDate,
   storageAreaId |-> item.storageAreaId, isOpened |-> item.isOpened,
   quantity |-> item.quantity, createdAt |-> item.createdAt,
   openedAt |-> item.openedAt, mergedIds |-> mergedIds]

\* `${item.name.toLowerCase()}_${day}_${expiryKey}`
StackKey(item, z) ==
  <<ToLowerCase(item.name), getStartOfDay(item.openedAt[1], z),
    item.expiryDate>>

\* the loop over the opened records: openedMap as the sequence of its values
\* in insertion order.  A record without openedAt is skipped (Date.now() is
\* never 0, so !item.openedAt is the test for undefined).
RECURSIVE StackOpened(_, _, _)
StackOpened(opened, openedMap, z) ==
  IF opened = <<>> THEN openedMap
  ELSE
    LET item == Head(opened)
    IN  IF item.openedAt = None THEN StackOpened(Tail(opened), openedMap, z)
        ELSE
          LET key == StackKey(item, z)
              at == FindIndex([k \in 1..Len(openedMap) |->
                                 StackKey(openedMap[k], z) = key])
          IN  IF at > 0
              THEN StackOpened(
                     Tail(opened),
                     [openedMap EXCEPT
                        ![at].quantity = @ + item.quantity,
                        ![at].openedAt =
                           Some(Max(@[1], item.openedAt[1])),
                        ![at].mergedIds = Append(@, item.id)],
                     z)
              ELSE StackOpened(Tail(opened),
                               Append(openedMap, RowOf(item, <<item.id>>)),
                               z)

\* the comparison of stackedOpened.sort: most recent day first, then by name
CompareStacks(a, b, z) ==
  LET dayA == getStartOfDay(a.openedAt[1], z)
      dayB == getStartOfDay(b.openedAt[1], z)
  IN  IF dayB # dayA THEN dayB - dayA ELSE localeCompare(a.name, b.name)

RECURSIVE InsertStack(_, _, _)
InsertStack(a, s, z) ==
  IF s = <<>> THEN <<a>>
  ELSE IF CompareStacks(a, Head(s), z) <= 0 THEN <<a>> \o s
       ELSE <<Head(s)>> \o InsertStack(a, Tail(s), z)

RECURSIVE SortStacks(_, _)
SortStacks(s, z) ==
  IF s = <<>> THEN <<>> ELSE InsertStack(Head(s), SortStacks(Tail(s), z), z)

\* stackItems(items): the rows of a card
stackItems(list, z) ==
  LET unopened == SelectSeq(list, LAMBDA item : ~item.isOpened)
      opened == SelectSeq(list, LAMBDA item : item.isOpened)
  IN  [i \in 1..Len(unopened) |-> RowOf(SortByName(unopened)[i], <<>>)]
        \o SortStacks(StackOpened(opened, <<>>, z), z)

updateItemQuantityCall(id, quantity) ==
  [id |-> id, quantity |-> quantity, op |-> "updateItemQuantity"]

\* the loop of the decreasing branch: the calls it makes, in order
RECURSIVE DecreaseStack(_, _, _)
DecreaseStack(cardItems, ids, remaining) ==
  IF ids = <<>> \/ remaining <= 0 THEN <<>>
  ELSE
    LET found == SelectSeq(cardItems, LAMBDA i : i.id = Head(ids))
    IN  IF found = <<>> THEN DecreaseStack(cardItems, Tail(ids), remaining)
        ELSE
          LET originalItem == found[1]
              toRemove == Min(remaining, originalItem.quantity)
          IN  <<updateItemQuantityCall(Head(ids),
                                       originalItem.quantity - toRemove)>>
                \o DecreaseStack(cardItems, Tail(ids), remaining - toRemove)

\* a mutant: the whole decrease is taken from the first record of the stack
handleUpdateQuantityFirstOnly(cardItems, item, newQuantity) ==
  IF Len(item.mergedIds) > 1
  THEN LET found == SelectSeq(cardItems, LAMBDA i : i.id = item.mergedIds[1])
       IN  IF newQuantity = item.quantity \/ found = <<>> THEN <<>>
           ELSE <<updateItemQuantityCall(
                    item.mergedIds[1],
                    found[1].quantity + newQuantity - item.quantity)>>
  ELSE <<updateItemQuantityCall(item.id, newQuantity)>>

\* handleUpdateQuantity(item, newQuantity) of a card whose items prop is
\* cardItems: the onUpdateQuantity calls it makes, in order
handleUpdateQuantity(cardItems, item, newQuantity) ==
  IF Len(item.mergedIds) > 1
  THEN LET oldTotal == item.quantity
           diff == newQuantity - oldTotal
       IN  IF diff < 0
           THEN DecreaseStack(cardItems, item.mergedIds, -diff)
           ELSE IF diff > 0
           THEN LET firstId == item.mergedIds[1]
                    found == SelectSeq(cardItems, LAMBDA i : i.id = firstId)
                IN  IF found = <<>> THEN <<>>
                    ELSE <<updateItemQuantityCall(firstId,
                                                  found[1].quantity + diff)>>
           ELSE <<>>
  ELSE <<updateItemQuantityCall(item.id, newQuantity)>>

\* handleRemoveItem(item): the onRemoveItem calls it makes, in order
handleRemoveItem(item) ==
  IF Len(item.mergedIds) > 1
  THEN [k \in 1..Len(item.mergedIds) |->
          [id |-> item.mergedIds[k], op |-> "removeItem"]]
  ELSE <<[id |-> item.id, op |-> "removeItem"]>>

\* a mutant: only the setState of the last call of the event counts, as if
\* each handler wrote a list computed from the rendered one
QueueOfLastCall(calls) ==
  IF calls = <<>> THEN <<>> ELSE Handle(calls[Len(calls)])

\* the updaters that the calls of one event queue, in call order
RECURSIVE QueueOf(_)
QueueOf(calls) ==
  IF calls = <<>> THEN <<>> ELSE Handle(Head(calls)) \o QueueOf(Tail(calls))

\* One event of the UI: its handler makes the store calls `calls`, React
\* renders once after the handler has returned, and the persist effects of
\* that render run.
Event(handler, mergedIds, total, newQuantity, calls, opening) ==
  /\ ~isLoading
  /\ nCalls < MaxCalls
  /\ LET S == [storageAreas |-> storageAreas, items |-> items,
               nextId |-> nextId]
         queue == QueueOf(calls)
         T == Render(S, queue, now, tz)
     IN  /\ storageAreas' = T.storageAreas
         /\ items' = T.items
         /\ nextId' = T.nextId
         /\ dbAreas' = IF idbAvailable /\ hasLoaded /\ SetsStorageAreas(queue)
                       THEN PersistTable(dbAreas, T.storageAreas)
                       ELSE dbAreas
         /\ dbItems' = IF idbAvailable /\ hasLoaded /\ SetsItems(S, queue)
                       THEN PersistTable(dbItems, T.items)
                       ELSE dbItems
  /\ uiEvent' = [handler |-> handler, mergedIds |-> mergedIds,
                 total |-> total, newQuantity |-> newQuantity,
                 calls |-> calls]
  /\ openingItem' = opening
  /\ IF calls = <<>>
     THEN UNCHANGED <<now, nCalls, last, prev>>
     ELSE /\ now' = now + 1
          /\ nCalls' = nCalls + 1
          /\ prev' = last
          /\ last' = [storageAreas |-> storageAreas, items |-> items,
                      call |-> calls[Len(calls)], returned |-> "undefined"]
  /\ UNCHANGED <<isLoading, hasLoaded, tz, idbVars, got, apiVars>>

\* the rows of the card of an area: stackItems(store.getItemsForArea(area.id))
CardItems(storageAreaId) == getItemsForArea(items, storageAreaId)

CardRows(storageAreaId) == stackItems(CardItems(storageAreaId), tz)

CardIds == {storageAreas[i].id : i \in 1..Len(storageAreas)}

\* the - and + buttons of a row: handleUpdateQuantity with quantity - 1 and
\* quantity + 1.  The cards are rendered, and their buttons can be reached
\* by keyboard, while the OpenItemModal is shown.
ClickQuantityButton ==
  \E a \in CardIds :
    \E r \in 1..Len(CardRows(a)) :
      LET row == CardRows(a)[r]
      IN  \E newQuantity \in {row.quantity - 1, row.quantity + 1} :
            Event("handleUpdateQuantity", row.mergedIds, row.quantity,
                  newQuantity,
                  handleUpdateQuantity(CardItems(a), row, newQuantity),
                  openingItem)

\* handleUpdateQuantity applied to a row and any new quantity from 0
HandleUpdateQuantity ==
  \E a \in CardIds :
    \E r \in 1..Len(CardRows(a)) :
      LET row == CardRows(a)[r]
      IN  \E newQuantity \in 0..(row.quantity + 1) :
            Event("handleUpdateQuantity", row.mergedIds, row.quantity,
                  newQuantity,
                  handleUpdateQuantity(CardItems(a), row, newQuantity),
                  openingItem)

\* the x button of a row
HandleRemoveItem ==
  \E a \in CardIds :
    \E r \in 1..Len(CardRows(a)) :
      LET row == CardRows(a)[r]
      IN  Event("handleRemoveItem", row.mergedIds, row.quantity, 0,
                handleRemoveItem(row), openingItem)

\* the Start Using button of a row that is not opened: App.handleOpenItem
HandleOpenItem ==
  \E a \in CardIds :
    \E r \in 1..Len(CardRows(a)) :
      LET row == CardRows(a)[r]
          found == SelectSeq(items, LAMBDA i : i.id = row.id)
      IN  /\ ~row.isOpened
          /\ found # <<>>
          /\ IF found[1].quantity = 1
             THEN Event("handleOpenItem", <<>>, row.quantity, 0,
                        <<[id |-> found[1].id, quantityToOpen |-> 1,
                           op |-> "openItem"]>>,
                        openingItem)
             ELSE Event("handleOpenItem", <<>>, row.quantity, 0, <<>>,
                        Some(found[1]))

\* OpenItemModal.handleSubmit: quantity is a number from 1, which the input
\* and the two buttons keep at or below the quantity of the item prop
SubmitOpenItemModal ==
  /\ openingItem # None
  /\ \E quantity \in 1..Max(1, openingItem[1].quantity) :
       /\ quantity > 0 /\ quantity <= openingItem[1].quantity
       /\ Event("OpenItemModal.handleSubmit", <<>>,
                openingItem[1].quantity, quantity,
                <<[id |-> openingItem[1].id, quantityToOpen |-> quantity,
                   op |-> "openItem"]>>,
                None)

\* the Cancel and close buttons and the backdrop of the OpenItemModal
CloseOpenItemModal ==
  /\ openingItem # None
  /\ Event("onClose", <<>>, 0, 0, <<>>, None)

\* the form of a card: handleSubmit calls onAddItem once
SubmitAddItem ==
  \E a \in CardIds \cap {"fridge"} :
    Event("handleSubmit", <<>>, 0, 0,
          <<[name |-> <<"M", "i">>, expiryDate |-> None,
             storageAreaId |-> a, quantity |-> 1, op |-> "addItem"]>>,
          openingItem)

\* a caller that calls addItem twice with the same name, area and expiry
\* date before the store is rendered again
AddItemTwice ==
  LET c == [name |-> <<"M", "i">>, expiryDate |-> Some(5),
            storageAreaId |-> "fridge", quantity |-> 1, op |-> "addItem"]
  IN  Event("addItem, addItem", <<>>, 0, 0, <<c, c>>, openingItem)

\* an opened record of the fridge, as an earlier session left it
OpenedMilk(id, name, quantity, openedAt) ==
  [id |-> id, name |-> name, expiryDate |-> None, storageAreaId |-> "fridge",
   isOpened |-> TRUE, quantity |-> quantity, createdAt |-> -4,
   openedAt |-> Some(openedAt)]

\* the item tables the UI is started on: opened records of one name and one
\* day, and a record that is not opened
UiItems ==
  { << OpenedMilk("a1", <<"M", "i">>, 1, -2),
       OpenedMilk("a2", <<"m", "i">>, 2, -1),
       [id |-> "a3", name |-> <<"M", "i">>, expiryDate |-> None,
        storageAreaId |-> "fridge", isOpened |-> FALSE, quantity |-> 2,
        createdAt |-> -3, openedAt |-> None] >>,
    << OpenedMilk("a1", <<"M", "i">>, 1, -2),
       OpenedMilk("a2", <<"M", "i">>, 1, -1),
       OpenedMilk("a3", <<"M", "i">>, 2, -1) >> }

InitUi ==
  /\ InitStore
  /\ dbAreas = SortByKey(DEFAULT_STORAGE_AREAS)
  /\ dbItems \in UiItems
  /\ tz \in TzOffsets
  /\ idbAvailable = TRUE
  /\ srvAreas = defaultAreas
  /\ srvItems = <<>>

NextUi ==
  \/ Load
  \/ ClickQuantityButton
  \/ HandleRemoveItem
  \/ HandleOpenItem
  \/ SubmitOpenItemModal
  \/ CloseOpenItemModal
  \/ SubmitAddItem
  \/ AddItemTwice

SpecUi == InitUi /\ [][NextUi]_vars

\* the quantity handler of the cards on its own
NextStack ==
  \/ Load
  \/ HandleUpdateQuantity

SpecStack == InitUi /\ [][NextStack]_vars

(********************************* C33 **************************************)
\* C33: no two unopened items of the item list have the same area, the same
\* name up to case and the same expiry date.
C33_OneUnopenedPerKey ==
  \A i, j \in 1..Len(items) :
    (i # j /\ ~items[i].isOpened)
      => j \notin UnopenedWithKey(items, items[i].name,
                                  items[i].storageAreaId, items[i].expiryDate)

\* an addItem call merged into a record of a list of several unopened items
C33_Witness ==
  /\ IsValidAdd(last.call)
  /\ Len(items) = Len(last.items)
  /\ items # last.items
  /\ Cardinality({i \in 1..Len(items) : ~items[i].isOpened}) >= 2

(********************************* C34 **************************************)
\* C34: openItem(id, quantityToOpen) for an existing item leaves the sum of
\* the quantities of the items of each area as it was before the call.
C34_OpenItemConservesStock ==
  (last.call.op = "openItem" /\ last.call.id \in IdsOf(last.items))
    => \A a \in {last.items[i].storageAreaId : i \in 1..Len(last.items)}
                  \cup {items[i].storageAreaId : i \in 1..Len(items)} :
         getItemCountForArea(items, a) = getItemCountForArea(last.items, a)

\* openItem split a record: the list is one record longer
C34_Witness ==
  /\ last.call.op = "openItem"
  /\ last.call.id \in IdsOf(last.items)
  /\ Len(items) = Len(last.items) + 1

(********************************* C35 **************************************)
\* C35: no two areas of the area list have the same id, and no two items of
\* the item list have the same id.
C35_IdsAreUnique ==
  /\ \A i, j \in 1..Len(storageAreas) :
       storageAreas[i].id = storageAreas[j].id => i = j
  /\ \A i, j \in 1..Len(items) : items[i].id = items[j].id => i = j

(********************************* C36 **************************************)
\* C36: an id-keyed operation called with an id that is the id of no area and
\* no item leaves the area list, orders included, and the item list as they
\* were before the call.
C36_UnknownIdHasNoEffect ==
  C22_NotFound(last)
    => storageAreas = last.storageAreas /\ items = last.items

(********************************* C37 **************************************)
\* C37: a step after which the initial load is still running starts no save
\* and writes nothing to the persisted collections, whatever was called.
C37_NoSaveBeforeLoad ==
  [][isLoading' => UNCHANGED <<dbAreas, dbItems, pendingAreas, pendingItems>>]_vars

\* addItem added a record to the item list while the load was still running
C37_Witness ==
  /\ isLoading
  /\ last.call.op = "addItem"
  /\ Len(items) > Len(last.items)
  /\ dbItems # items

(********************************* C38 **************************************)
\* every record of the table before the step is in the table after it
C38_StillThere(table, after) ==
  \A i \in 1..Len(table) : \E j \in 1..Len(after) : after[j] = table[i]

\* C38: once the initial load has failed, and as long as no mutation has been
\* called, every persisted area and every persisted item stays persisted.
C38_FallbackKeepsPersistedData ==
  [][(loaded'.outcome = "failed" /\ nCalls' = 0)
       => /\ C38_StillThere(dbAreas, dbAreas')
          /\ C38_StillThere(dbItems, dbItems')]_vars

(********************************* C40 **************************************)
\* C40: every row of the backend's item table has a quantity of 1 or more.
C40_StoredQuantityAtLeastOne ==
  \A i \in 1..Len(srvItems) : srvItems[i].quantity >= 1

(********************************* C31 **************************************)
\* C31: every openItem call that an event of the UI makes names a record of
\* the item list it is applied to that is not opened, with a quantity to open
\* of at least 1 and at most the quantity of that record.
C31_OpenCallsAreClamped ==
  \A k \in 1..Len(uiEvent.calls) :
    uiEvent.calls[k].op = "openItem"
      => \E i \in 1..Len(last.items) :
           /\ last.items[i].id = uiEvent.calls[k].id
           /\ ~last.items[i].isOpened
           /\ uiEvent.calls[k].quantityToOpen >= 1
           /\ uiEvent.calls[k].quantityToOpen <= last.items[i].quantity

(********************************* C32 **************************************)
\* the records of the list that the row of the last event merges
C32_Merged(list) ==
  SelectSeq(list, LAMBDA item :
              \E k \in 1..Len(uiEvent.mergedIds) :
                uiEvent.mergedIds[k] = item.id)

\* the records of the list that the row of the last event does not merge
C32_Others(list) ==
  SelectSeq(list, LAMBDA item :
              \A k \in 1..Len(uiEvent.mergedIds) :
                uiEvent.mergedIds[k] # item.id)

\* C32: after handleUpdateQuantity on a row that merges several opened
\* records of total T with a new quantity N: when N < T the merged records
\* that are left sum to N, none of them has a quantity below 1, and the other
\* records are as before; when N > T the list is as before but for the first
\* merged record, whose quantity is N - T higher.
C32_StackedQuantityIsDistributed ==
  (uiEvent.handler = "handleUpdateQuantity" /\ Len(uiEvent.mergedIds) > 1)
    => /\ uiEvent.newQuantity < uiEvent.total =>
            /\ SumQuantity(C32_Merged(items)) = uiEvent.newQuantity
            /\ \A i \in 1..Len(C32_Merged(items)) :
                 C32_Merged(items)[i].quantity >= 1
            /\ C32_Others(items) = C32_Others(last.items)
       /\ uiEvent.newQuantity > uiEvent.total =>
            items = [i \in 1..Len(last.items) |->
                       IF last.items[i].id = uiEvent.mergedIds[1]
                       THEN [last.items[i] EXCEPT
                               !.quantity = @ + uiEvent.newQuantity
                                              - uiEvent.total]
                       ELSE last.items[i]]

\* a decrease that removed a merged record and lowered another one
C32_Witness ==
  /\ uiEvent.handler = "handleUpdateQuantity"
  /\ Len(uiEvent.mergedIds) > 1
  /\ uiEvent.newQuantity >= 1
  /\ Len(uiEvent.calls) >= 2
  /\ Len(items) < Len(last.items)

(********************************* C39 **************************************)
\* the calls applied one at a time, each rendered before the next is made
RECURSIVE C39_OneAtATime(_, _, _, _)
C39_OneAtATime(S, calls, t, z) ==
  IF calls = <<>> THEN S
  ELSE C39_OneAtATime(Render(S, Handle(Head(calls)), t, z), Tail(calls), t, z)

\* C39: an event that makes several store calls before the store is rendered
\* again leaves the lists that the same calls leave when they are applied one
\* at a time in call order.
C39_BackToBackCallsAllApply ==
  [][ (nCalls' = nCalls + 1 /\ Len(uiEvent'.calls) >= 2)
        => LET S == [storageAreas |-> storageAreas, items |-> items,
                     nextId |-> nextId]
               T == C39_OneAtATime(S, uiEvent'.calls, now, tz)
           IN  storageAreas' = T.storageAreas /\ items' = T.items ]_vars

\* handleRemoveItem removed every record of a row that merges several
C39_Witness ==
  /\ uiEvent.handler = "handleRemoveItem"
  /\ Len(uiEvent.calls) >= 2
  /\ Len(items) = Len(last.items) - Len(uiEvent.calls)

====
